---- MODULE Spec2Model ----
(***************************************************************************)
(* A model of the resume-generation pipeline: the orchestrator's stages    *)
(* (orchestrator/orchestrator.py), the agents that parse an LLM response   *)
(* (agents/work_experience_refinement_agent.py,                            *)
(* agents/supplement_integration_agent.py) and the session flow of the     *)
(* Streamlit script (app.py).                                              *)
(***************************************************************************)
EXTENDS Integers, Sequences, FiniteSets, TLC

(***************************************************************************)
(* Python values.  A value carries its type as the name of its one field,  *)
(* so that values of different types compare unequal.                      *)
(***************************************************************************)
PyNone == [none |-> TRUE]
PyStr(s) == [str |-> s]
PyNum(s) == [num |-> s]
PyList(q) == [list |-> q]
PyDict(f) == [dict |-> f]

IsNone(v) == "none" \in DOMAIN v
IsStr(v) == "str" \in DOMAIN v
IsNum(v) == "num" \in DOMAIN v
IsList(v) == "list" \in DOMAIN v
IsDict(v) == "dict" \in DOMAIN v

EmptyDict == <<>>

\* bool(v): None, "", 0, [] and {} are false.
Truthy(v) ==
    CASE IsNone(v) -> FALSE
      [] IsStr(v) -> v.str # ""
      [] IsNum(v) -> v.num # "0"
      [] IsList(v) -> Len(v.list) > 0
      [] IsDict(v) -> DOMAIN v.dict # {}

\* len(v) is defined for str, list and dict and raises TypeError otherwise.
HasLen(v) == IsStr(v) \/ IsList(v) \/ IsDict(v)

\* d.get(key, default) of a dict d.
DictGet(d, key, default) ==
    IF key \in DOMAIN d.dict THEN d.dict[key] ELSE default

(***************************************************************************)
(* Text.  A text is a sequence of units: each structural character         *)
(* ({ } [ ] : , " and the blank) is one unit, and a maximal run of other   *)
(* characters is one unit.  Indices are 0-based as in Python; they count   *)
(* units, which keeps every comparison of two indices of one text.         *)
(***************************************************************************)
LBrace == "{"
RBrace == "}"
LBracket == "["
RBracket == "]"
Colon == ":"
Comma == ","
Quote == "\""
Blank == " "

Digits == {"0", "5"}

\* str.find(ch): the lowest index of ch, or -1.
find(text, ch) ==
    IF \E i \in 1..Len(text) : text[i] = ch
    THEN (CHOOSE i \in 1..Len(text) :
              /\ text[i] = ch
              /\ \A j \in 1..(i - 1) : text[j] # ch) - 1
    ELSE -1

\* A variant of rfind that takes the lowest index of ch.
rfindLowest(text, ch) == find(text, ch)

\* str.rfind(ch): the highest index of ch, or -1.
rfind(text, ch) ==
    IF \E i \in 1..Len(text) : text[i] = ch
    THEN (CHOOSE i \in 1..Len(text) :
              /\ text[i] = ch
              /\ \A j \in (i + 1)..Len(text) : text[j] # ch) - 1
    ELSE -1

\* text[a:b] for 0 <= a and 0 <= b, the end clamped to len(text).
Slice(text, a, b) ==
    LET e == IF b > Len(text) THEN Len(text) ELSE b
    IN  IF a >= e THEN <<>> ELSE SubSeq(text, a + 1, e)

\* A variant of StripIsEmpty that takes only the empty text for empty.
IsEmptyText(text) == text = <<>>

\* text.strip() is empty: every unit is blank.
StripIsEmpty(text) == \A i \in 1..Len(text) : text[i] = Blank

(***************************************************************************)
(* json.loads on a text.  Positions inside the parser are 1-based.         *)
(* The literals true and false and escapes are not in the alphabet.        *)
(***************************************************************************)
ParseFail == [ok |-> FALSE, val |-> PyNone, pos |-> 0]
ParseOk(v, p) == [ok |-> TRUE, val |-> v, pos |-> p]

\* The first position at or after i that holds no blank (Len + 1 if none).
SkipWs(t, i) ==
    IF \E j \in i..Len(t) : t[j] # Blank
    THEN CHOOSE j \in i..Len(t) :
             /\ t[j] # Blank
             /\ \A k \in i..(j - 1) : t[k] = Blank
    ELSE Len(t) + 1

At(t, i) == IF i >= 1 /\ i <= Len(t) THEN t[i] ELSE "<eof>"

RECURSIVE Concat(_, _, _)
Concat(t, i, j) == IF i > j THEN "" ELSE t[i] \o Concat(t, i + 1, j)

\* A string literal that opens at position i: up to the next quote.
ParseString(t, i) ==
    IF At(t, i) # Quote \/ ~(\E j \in (i + 1)..Len(t) : t[j] = Quote)
    THEN ParseFail
    ELSE LET close == CHOOSE j \in (i + 1)..Len(t) :
                          /\ t[j] = Quote
                          /\ \A k \in (i + 1)..(j - 1) : t[k] # Quote
         IN  ParseOk(PyStr(Concat(t, i + 1, close - 1)), close + 1)

RECURSIVE ParseValue(_, _)
RECURSIVE ParseMembers(_, _, _)
RECURSIVE ParseElements(_, _, _)

\* The members of an object, the first key expected at position i.
ParseMembers(t, i, acc) ==
    LET k == ParseString(t, i)
        c == SkipWs(t, k.pos)
        v == ParseValue(t, c + 1)
        e == SkipWs(t, v.pos)
        more == (k.val.str :> v.val) @@ acc
    IN  IF ~k.ok \/ At(t, c) # Colon THEN ParseFail
        ELSE IF ~v.ok THEN ParseFail
        ELSE IF At(t, e) = Comma THEN ParseMembers(t, SkipWs(t, e + 1), more)
        ELSE IF At(t, e) = RBrace THEN ParseOk(PyDict(more), e + 1)
        ELSE ParseFail

\* The elements of an array, the first value expected at position i.
ParseElements(t, i, acc) ==
    LET v == ParseValue(t, i)
        e == SkipWs(t, v.pos)
    IN  IF ~v.ok THEN ParseFail
        ELSE IF At(t, e) = Comma
             THEN ParseElements(t, e + 1, Append(acc, v.val))
        ELSE IF At(t, e) = RBracket
             THEN ParseOk(PyList(Append(acc, v.val)), e + 1)
        ELSE ParseFail

ParseValue(t, i) ==
    LET s == SkipWs(t, i)
        u == At(t, s)
        n == SkipWs(t, s + 1)
    IN  IF u = LBrace
        THEN IF At(t, n) = RBrace THEN ParseOk(PyDict(EmptyDict), n + 1)
             ELSE ParseMembers(t, n, EmptyDict)
        ELSE IF u = LBracket
        THEN IF At(t, n) = RBracket THEN ParseOk(PyList(<<>>), n + 1)
             ELSE ParseElements(t, n, <<>>)
        ELSE IF u = Quote THEN ParseString(t, s)
        ELSE IF u = "null" THEN ParseOk(PyNone, s + 1)
        ELSE IF u \in Digits THEN ParseOk(PyNum(u), s + 1)
        ELSE ParseFail

\* json.loads(text): the value, or JSONDecodeError (ok = FALSE); text after
\* the value other than blanks is an error ("Extra data").
Loaded(text, r) ==
    IF r.ok /\ SkipWs(text, r.pos) > Len(text)
    THEN [ok |-> TRUE, val |-> r.val]
    ELSE [ok |-> FALSE, val |-> PyNone]

json_loads(text) == Loaded(text, ParseValue(text, 1))

(***************************************************************************)
(* The LLM capability (agents/base_agent.py: self.llm.invoke).  Its        *)
(* outcome is an input of every agent: it raises, or it returns a response *)
(* whose text is content.                                                  *)
(***************************************************************************)
LLMRaises == [raises |-> TRUE, content |-> <<>>]
LLMReturns(text) == [raises |-> FALSE, content |-> text]

\* What a call of an agent's run() does: the exception that escapes it
\* ("none" when it returns), the value it returns, and how many times it
\* invoked the LLM.
Return(v, n) == [exc |-> "none", value |-> v, llm_calls |-> n]
Raise(e, n) == [exc |-> e, value |-> PyNone, llm_calls |-> n]

\* The text _format_work_experiences returns for an empty list
\* (the Japanese for "not stated").
NoEntryText == <<"kisai-nashi">>

\* A variant of SpanFound that asks for a closing brace anywhere.
SpanFoundAnyBrace(json_start, json_end) == json_start >= 0 /\ json_end > 0

\* if json_start >= 0 and json_end > json_start: the condition under which
\* the refinement, supplement and suggestion agents parse the response.
SpanFound(json_start, json_end) == json_start >= 0 /\ json_end > json_start

(***************************************************************************)
(* WorkExperienceRefinementAgent.run                                       *)
(***************************************************************************)
\* Lines 79-85: the value under work_experiences is measured with len()
\* (TypeError unless it has a length) and, when truthy, indexed with [0]
\* (KeyError on a dict).
RefinementChecked(refined_experiences) ==
    IF ~HasLen(refined_experiences) THEN Raise("TypeError", 1)
    ELSE IF IsDict(refined_experiences) /\ Truthy(refined_experiences)
    THEN Raise("KeyError", 1)
    ELSE Return(refined_experiences, 1)

\* A variant of RefinementParsed whose default for an object without
\* work_experiences is the object itself.
RefinementParsedWhole(parsed_response) ==
    IF ~parsed_response.ok THEN Return(PyList(<<>>), 1)
    ELSE RefinementChecked(
             DictGet(parsed_response.val, "work_experiences", parsed_response.val))

\* Lines 76-95: json.loads returned parsed_response, or raised
\* JSONDecodeError, which the except branch turns into an empty list.
RefinementParsed(parsed_response) ==
    IF ~parsed_response.ok THEN Return(PyList(<<>>), 1)
    ELSE RefinementChecked(
             DictGet(parsed_response.val, "work_experiences", PyList(<<>>)))

\* Lines 71-89: the text between the braces is parsed, if there are any.
RefinementSpan(response_text, json_start, json_end) ==
    IF SpanFound(json_start, json_end)
    THEN RefinementParsed(json_loads(Slice(response_text, json_start, json_end)))
    ELSE Return(PyList(<<>>), 1)

\* Lines 64-99: the parsing of the response text.
RefinementParse(response_text) ==
    RefinementSpan(response_text, find(response_text, LBrace),
                   rfind(response_text, RBrace) + 1)

\* A variant of RefinementRun whose short-circuit knows the empty text only.
RefinementRunWithoutSentinel(work_experiences, llm) ==
    IF work_experiences = <<>> THEN Return(PyList(<<>>), 0)
    ELSE IF llm.raises THEN Raise("LLMError", 1)
    ELSE RefinementParse(llm.content)

\* Lines 22-62: the short-circuit, then the LLM call.
RefinementRun(work_experiences, llm) ==
    IF work_experiences = <<>> \/ work_experiences = NoEntryText
    THEN Return(PyList(<<>>), 0)
    ELSE IF llm.raises THEN Raise("LLMError", 1)
    ELSE RefinementParse(llm.content)

WorkExperienceRefinementAgent_run(input_data, llm) ==
    RefinementRun(input_data.work_experiences, llm)

(***************************************************************************)
(* SupplementIntegrationAgent.run                                          *)
(***************************************************************************)
\* ', '.join(v) raises TypeError unless v is an iterable of str.
JoinRaises(v) ==
    \/ IsNum(v) \/ IsNone(v)
    \/ IsList(v) /\ \E i \in 1..Len(v.list) : ~IsStr(v.list[i])

\* A truthy field that is joined (lines 90-100 and the like).
JoinedFieldRaises(d, key) ==
    /\ key \in DOMAIN d.dict
    /\ Truthy(d.dict[key])
    /\ JoinRaises(d.dict[key])

\* The loop over a truthy list field whose entries are read with .get():
\* an entry that is no dict has no .get (AttributeError), and a number is
\* not iterable (TypeError).
EntriesRaise(d, key, joined) ==
    /\ key \in DOMAIN d.dict
    /\ Truthy(d.dict[key])
    /\ LET v == d.dict[key]
       IN  \/ ~IsList(v)
           \/ \E i \in 1..Len(v.list) :
                  \/ ~IsDict(v.list[i])
                  \/ \E k \in joined : JoinedFieldRaises(v.list[i], k)

\* _format_resume_data raises on a record whose fields have other types
\* than the ones _extract_structured_data builds.
FormatResumeDataRaises(resume_data) ==
    \/ \E k \in {"programming_languages", "frameworks",
                 "testing_tools", "design_tools"} :
           JoinedFieldRaises(resume_data, k)
    \/ EntriesRaise(resume_data, "work_experiences",
                    {"technologies", "achievements"})
    \/ EntriesRaise(resume_data, "personal_projects", {"technologies"})

\* Variants of SupplementParsed: one that adds the parsed fields to the
\* record, one that adds the fields of the record to the parsed object, and
\* one without the except branch.
SupplementMerged(resume_data, updated_data) ==
    IF updated_data.ok /\ IsDict(updated_data.val)
    THEN Return(PyDict(updated_data.val.dict @@ resume_data.dict), 1)
    ELSE Return(resume_data, 1)

SupplementOverlaid(resume_data, updated_data) ==
    IF updated_data.ok /\ IsDict(updated_data.val)
    THEN Return(PyDict(resume_data.dict @@ updated_data.val.dict), 1)
    ELSE Return(resume_data, 1)

SupplementParsedOrRaises(resume_data, updated_data) ==
    IF updated_data.ok THEN Return(updated_data.val, 1)
    ELSE Raise("JSONDecodeError", 1)

\* Lines 57-69: json.loads returned updated_data, or raised
\* JSONDecodeError, which the except branch turns into the original record.
SupplementParsed(resume_data, updated_data) ==
    IF updated_data.ok THEN Return(updated_data.val, 1)
    ELSE Return(resume_data, 1)

\* Lines 55-62: the text between the braces is parsed, if there are any.
SupplementSpan(resume_data, response_text, json_start, json_end) ==
    IF SpanFound(json_start, json_end)
    THEN SupplementParsed(resume_data,
             json_loads(Slice(response_text, json_start, json_end)))
    ELSE Return(resume_data, 1)

\* Lines 49-69: the parsing of the response text.
SupplementParse(resume_data, response_text) ==
    SupplementSpan(resume_data, response_text, find(response_text, LBrace),
                   rfind(response_text, RBrace) + 1)

\* Lines 21-47: the blank supplement, the prompt, the LLM call.
SupplementRun(resume_data, supplement_info, llm) ==
    IF StripIsEmpty(supplement_info) THEN Return(resume_data, 0)
    ELSE IF FormatResumeDataRaises(resume_data) THEN Raise("TypeError", 0)
    ELSE IF llm.raises THEN Raise("LLMError", 1)
    ELSE SupplementParse(resume_data, llm.content)

SupplementIntegrationAgent_run(input_data, llm) ==
    SupplementRun(input_data.resume_data, input_data.supplement_info, llm)

(***************************************************************************)
(* ImprovementSuggestionAgent.run                                          *)
(***************************************************************************)
\* The fixed default of line 50 (Japanese: please enter the supplementary
\* information or experience you would like to add).
DefaultPromptText == PyStr("default-prompt-text")

\* _format_resume_data of this agent (lines 75-114).
SuggestionFormatRaises(resume_data) ==
    \/ \E k \in {"programming_languages", "frameworks"} :
           JoinedFieldRaises(resume_data, k)
    \/ EntriesRaise(resume_data, "work_experiences", {})
    \/ EntriesRaise(resume_data, "personal_projects", {"technologies"})

SuggestionDefaults ==
    PyDict([suggestions |-> PyList(<<>>), prompt_text |-> DefaultPromptText])

\* Lines 60-73: the two keys are read with their defaults, and the
\* suggestions are measured with len() (TypeError unless they have a length).
SuggestionChecked(suggestions, prompt_text) ==
    IF ~HasLen(suggestions) THEN Raise("TypeError", 1)
    ELSE Return(PyDict([suggestions |-> suggestions,
                        prompt_text |-> prompt_text]), 1)

\* A variant of SuggestionParsed without the except branch.
SuggestionParsedOrRaises(parsed_response) ==
    IF ~parsed_response.ok THEN Raise("JSONDecodeError", 1)
    ELSE SuggestionChecked(
             DictGet(parsed_response.val, "suggestions", PyList(<<>>)),
             DictGet(parsed_response.val, "prompt_text", DefaultPromptText))

\* Lines 59-68: json.loads returned parsed_response, or raised
\* JSONDecodeError, which leaves the defaults.
SuggestionParsed(parsed_response) ==
    IF ~parsed_response.ok THEN Return(SuggestionDefaults, 1)
    ELSE SuggestionChecked(
             DictGet(parsed_response.val, "suggestions", PyList(<<>>)),
             DictGet(parsed_response.val, "prompt_text", DefaultPromptText))

\* Lines 57-64: the text between the braces is parsed, if there are any.
SuggestionSpan(response_text, json_start, json_end) ==
    IF SpanFound(json_start, json_end)
    THEN SuggestionParsed(json_loads(Slice(response_text, json_start, json_end)))
    ELSE Return(SuggestionDefaults, 1)

\* Lines 48-73: the parsing of the response text.
SuggestionParse(response_text) ==
    SuggestionSpan(response_text, find(response_text, LBrace),
                   rfind(response_text, RBrace) + 1)

ImprovementSuggestionAgent_run(input_data, llm) ==
    IF SuggestionFormatRaises(input_data.resume_data) THEN Raise("TypeError", 0)
    ELSE IF llm.raises THEN Raise("LLMError", 1)
    ELSE SuggestionParse(llm.content)

(***************************************************************************)
(* The plain-text agents: CompanyAnalysisAgent, RequirementsExtraction-    *)
(* Agent, ResumeStructureAgent and SummaryGenerationAgent.  Each returns   *)
(* the response text under its result key (the echoed inputs, which no     *)
(* caller reads, are left out) and lets an LLM exception escape.           *)
(***************************************************************************)
TextOf(content) == PyStr(Concat(content, 1, Len(content)))

\* A variant of TextAgent_run that invokes the LLM a second time when the
\* first invocation raises.
TextAgent_runRetrying(key, llm) ==
    IF llm.raises THEN Raise("LLMError", 2)
    ELSE Return(PyDict(key :> TextOf(llm.content)), 1)

TextAgent_run(key, llm) ==
    IF llm.raises THEN Raise("LLMError", 1)
    ELSE Return(PyDict(key :> TextOf(llm.content)), 1)

CompanyAnalysisAgent_run(input_data, llm) == TextAgent_run("analysis", llm)
RequirementsExtractionAgent_run(input_data, llm) == TextAgent_run("requirements", llm)
ResumeStructureAgent_run(input_data, llm) == TextAgent_run("structure_plan", llm)
SummaryGenerationAgent_run(input_data, llm) == TextAgent_run("summary", llm)

(***************************************************************************)
(* AgentOrchestrator (orchestrator/orchestrator.py).  A UserInput is a     *)
(* record of Python values whose work_experiences is a sequence of         *)
(* WorkExperience records.                                                 *)
(***************************************************************************)
\* v or default
Or(v, default) == IF Truthy(v) THEN v ELSE default

\* The lines _format_work_experiences writes for one entry.
FormatExperience(exp) ==
    <<"company_name", Colon, Blank, exp.company_name.str, "\n",
      "position", Colon, Blank, exp.position.str, "\n",
      "period", Colon, Blank, exp.period.str, "\n">>
    \o (IF Truthy(exp.description)
        THEN <<"description", Colon, "\n", exp.description.str, "\n">>
        ELSE <<>>)

RECURSIVE FormatExperiences(_)
FormatExperiences(exps) ==
    IF exps = <<>> THEN <<>>
    ELSE FormatExperience(Head(exps)) \o FormatExperiences(Tail(exps))

_format_work_experiences(user_input) ==
    IF user_input.work_experiences = <<>> THEN NoEntryText
    ELSE FormatExperiences(user_input.work_experiences)

\* Lines 265-273: the original experiences as dicts.
OriginalExperienceDicts(user_input) ==
    PyList([i \in 1..Len(user_input.work_experiences) |->
               LET exp == user_input.work_experiences[i]
               IN  PyDict([company_name |-> exp.company_name,
                           position |-> exp.position,
                           period |-> exp.period,
                           description |-> exp.description])])

\* Lines 274-300: the record built around the list of experiences.
StructuredData(user_input, job_requirements, work_exp_list) ==
    PyDict([name |-> user_input.name,
            residence |-> Or(user_input.residence, PyStr("")),
            job_title |-> Or(user_input.job_title, PyStr("")),
            role |-> Or(job_requirements.job_title, PyStr("")),
            years_of_experience |-> Or(user_input.years_of_experience, PyStr("")),
            email |-> PyStr(""),
            phone |-> PyStr(""),
            programming_languages |-> user_input.programming_languages,
            frameworks |-> user_input.frameworks,
            testing_tools |-> user_input.testing_tools,
            design_tools |-> user_input.design_tools,
            work_experiences |-> work_exp_list,
            personal_projects |-> user_input.personal_projects,
            portfolio_url |-> Or(user_input.portfolio_url, PyStr(""))])

\* A variant of _extract_structured_data without the fallback of lines
\* 264-273: the refined list is used even when it is empty.
ExtractRefinedOnly(user_input, job_requirements, refined_experiences) ==
    StructuredData(user_input, job_requirements, refined_experiences)

_extract_structured_data(user_input, job_requirements, refined_experiences) ==
    StructuredData(user_input, job_requirements,
                   IF Truthy(refined_experiences) THEN refined_experiences
                   ELSE OriginalExperienceDicts(user_input))

\* Lines 78-81: the logging of the first refined experience slices its
\* description, which raises TypeError unless that is a str or a list.
RefinedLogRaises(refined_experiences) ==
    /\ IsList(refined_experiences)
    /\ LET first == refined_experiences.list[1]
       IN  /\ IsDict(first)
           /\ "description" \in DOMAIN first.dict
           /\ ~IsStr(first.dict["description"])
           /\ ~IsList(first.dict["description"])

\* Lines 74-93 once the agent's run() is over: an exception of run() or of
\* the logging ends in the except branch of line 88, which empties the list.
RefinementReturned(out) ==
    IF out.exc # "none" \/ (Truthy(out.value) /\ RefinedLogRaises(out.value))
    THEN [refined |-> PyList(<<>>), llm_calls |-> out.llm_calls, output |-> out]
    ELSE [refined |-> out.value, llm_calls |-> out.llm_calls, output |-> out]

\* Lines 54-57: the input of the requirements agent.
RequirementsInput(job_requirements, results) ==
    [job_description |-> job_requirements.job_description,
     company_analysis |-> results["company_analysis"]]

\* Lines 66-72: the input of the refinement agent.
RefinementInput(user_input, job_requirements, results) ==
    [work_experiences |-> _format_work_experiences(user_input),
     job_title |-> job_requirements.job_title,
     job_requirements |-> job_requirements.job_description,
     requirements_analysis |-> results["requirements_analysis"],
     company_analysis |-> results["company_analysis"]]

\* A variant of StructureInput that hands the company analysis over as
\* the requirements.
StructureInputOfCompany(results) ==
    [job_requirements |-> results["company_analysis"],
     company_analysis |-> results["company_analysis"]]

\* Lines 99-103: the input of the structure agent (requirements_output is
\* what line 59 stored); user_experience is not modelled.
StructureInput(results) ==
    [job_requirements |-> results["requirements_analysis"],
     company_analysis |-> results["company_analysis"]]

\* Step 3 of generate_resume (lines 62-95): the refined list it leaves in
\* refined_experiences, the LLM calls made, and what the agent's run() did.
RefinementStep(user_input, job_requirements, results, llm) ==
    IF user_input.work_experiences # <<>>
    THEN RefinementReturned(
             WorkExperienceRefinementAgent_run(
                 RefinementInput(user_input, job_requirements, results), llm))
    ELSE [refined |-> PyList(<<>>), llm_calls |-> 0,
          output |-> [exc |-> "not-called", value |-> PyNone, llm_calls |-> 0]]

\* Line 167: summary_output["summary"], unless the agent raised.
SummaryReturned(summary_output) ==
    IF summary_output.exc # "none" THEN summary_output
    ELSE Return(summary_output.value.dict["summary"], summary_output.llm_calls)

\* generate_summary (lines 111-167): the summary text, or the exception of
\* the summary agent's LLM call.
generate_summary(user_input, job_requirements, company_analysis, requirements_analysis, llm) ==
    SummaryReturned(
        SummaryGenerationAgent_run(
            [appeal_points |-> Or(user_input.appeal_points, PyStr("see-skill-sheet")),
             company_analysis |-> company_analysis,
             requirements_analysis |-> requirements_analysis], llm))

\* app.py calls these two methods of the orchestrator, which
\* orchestrator.py does not define: each hands its arguments to the agent
\* of the same purpose (spec section 2).
generate_improvement_suggestions(resume_data, job_requirements, llm) ==
    ImprovementSuggestionAgent_run(
        [resume_data |-> resume_data,
         job_title |-> job_requirements.job_title,
         job_description |-> job_requirements.job_description], llm)

integrate_supplement_info(resume_data, supplement_info, llm) ==
    SupplementIntegrationAgent_run(
        [resume_data |-> resume_data, supplement_info |-> supplement_info], llm)

(***************************************************************************)
(* Input validation (ui/validation.py) and the conversion of the form      *)
(* data to the pydantic models (app.py lines 147-171).                     *)
(***************************************************************************)
\* "@" in s, for the e-mail addresses of the model.
ContainsAt(s) == s \in {"taro@example.com"}

validate_user_input(user_data) ==
    LET name == DictGet(user_data, "name", PyNone)
        email == DictGet(user_data, "email", PyNone)
        exps == DictGet(user_data, "work_experiences", PyNone)
        errors ==
            (IF ~Truthy(name) THEN <<"name">> ELSE <<>>)
            \o (IF ~Truthy(email) THEN <<"email">>
                ELSE IF ~ContainsAt(email.str) THEN <<"email-format">>
                ELSE <<>>)
            \o (IF ~Truthy(exps) THEN <<"work_experiences">> ELSE <<>>)
    IN  [valid |-> Len(errors) = 0, errors |-> errors]

validate_job_requirements(job_data) ==
    LET company_info == DictGet(job_data, "company_info", PyDict(EmptyDict))
        errors ==
            (IF ~Truthy(DictGet(job_data, "job_title", PyNone))
             THEN <<"job_title">> ELSE <<>>)
            \o (IF ~Truthy(DictGet(company_info, "name", PyNone))
                THEN <<"company_name">> ELSE <<>>)
            \o (IF ~Truthy(DictGet(job_data, "job_description", PyNone))
                THEN <<"job_description">> ELSE <<>>)
    IN  [valid |-> Len(errors) = 0, errors |-> errors]

\* WorkExperience(**d) raises unless company_name, position and period are
\* str; UserInput(...) raises unless name is a str.
ConversionRaises(user_data, job_data) ==
    \/ ~IsStr(user_data.dict["name"])
    \/ \E i \in 1..Len(user_data.dict["work_experiences"].list) :
           LET d == user_data.dict["work_experiences"].list[i].dict
           IN  ~IsStr(d["company_name"]) \/ ~IsStr(d["position"])
               \/ ~IsStr(d["period"])

UserInput(user_data) ==
    LET d == user_data.dict
    IN  [name |-> d["name"],
         residence |-> DictGet(user_data, "residence", PyNone),
         job_title |-> DictGet(user_data, "job_title", PyNone),
         years_of_experience |-> DictGet(user_data, "years_of_experience", PyNone),
         appeal_points |-> DictGet(user_data, "appeal_points", PyNone),
         programming_languages |->
             DictGet(user_data, "programming_languages", PyList(<<>>)),
         frameworks |-> DictGet(user_data, "frameworks", PyList(<<>>)),
         testing_tools |-> DictGet(user_data, "testing_tools", PyList(<<>>)),
         design_tools |-> DictGet(user_data, "design_tools", PyList(<<>>)),
         work_experiences |->
             LET l == DictGet(user_data, "work_experiences", PyList(<<>>)).list
             IN  [i \in 1..Len(l) |->
                     [company_name |-> l[i].dict["company_name"],
                      position |-> l[i].dict["position"],
                      period |-> l[i].dict["period"],
                      description |-> DictGet(l[i], "description", PyNone)]],
         personal_projects |->
             DictGet(user_data, "personal_projects", PyList(<<>>)),
         portfolio_url |-> DictGet(user_data, "portfolio_url", PyNone)]

JobRequirements(job_data) ==
    [job_title |-> job_data.dict["job_title"],
     company_info |-> job_data.dict["company_info"],
     job_description |-> job_data.dict["job_description"]]

(***************************************************************************)
(* The inputs of the model.                                                *)
(***************************************************************************)
MaxExp == 2

\* The entries a user can put in the work-experience form.
ExpPool ==
    { PyDict([company_name |-> PyStr("Acme"), position |-> PyStr("Eng"),
              period |-> PyStr("2020"), description |-> PyStr("built")]),
      PyDict([company_name |-> PyStr("Beta"), position |-> PyStr("Dev"),
              period |-> PyStr("2018"), description |-> PyNone]) }

ExperienceLists == UNION { [1..n -> ExpPool] : n \in 0..MaxExp }

FormUserData(name, exps) ==
    [name |-> PyStr(name),
     residence |-> PyStr("Tokyo"),
     job_title |-> PyStr("Backend"),
     years_of_experience |-> PyStr(""),
     appeal_points |-> PyStr(""),
     programming_languages |-> PyList(<<PyStr("Python")>>),
     frameworks |-> PyList(<<>>),
     testing_tools |-> PyList(<<>>),
     design_tools |-> PyList(<<>>),
     work_experiences |-> PyList(exps),
     personal_projects |-> PyList(<<>>),
     portfolio_url |-> PyStr("")]

\* What _render_user_input_form returns (input_form.py lines 213-226): it
\* has no e-mail field.
RenderedUserForms ==
    { PyDict(FormUserData(n, e)) : n \in {"Taro", ""}, e \in ExperienceLists }

\* The user data main() validates: a rendered form, or the same data with
\* the e-mail address validate_user_input requires, or data that the
\* pydantic models reject.
UserForms ==
    RenderedUserForms
    \cup { PyDict(("email" :> PyStr("taro@example.com")) @@ f.dict) :
              f \in RenderedUserForms }
    \cup { PyDict(("email" :> PyStr("taro@example.com")) @@
                  FormUserData("Taro",
                      <<PyDict([company_name |-> PyNone, position |-> PyStr("Eng"),
                                period |-> PyStr("2020"),
                                description |-> PyNone])>>)) }

JobForms ==
    { PyDict([job_title |-> PyStr(t),
              company_info |-> PyDict([name |-> PyStr("Initech")]),
              job_description |-> PyStr("Python backend")]) : t \in {"SRE", ""} }

(***************************************************************************)
(* The response texts of the LLM, written as the units of a JSON text      *)
(* (the shape of mock_response in test_refinement_flow.py).                *)
(***************************************************************************)
JStr(s) == <<Quote, s, Quote>>
JPair(k, v) == JStr(k) \o <<Colon>> \o v

RECURSIVE JoinComma(_)
JoinComma(texts) ==
    IF texts = <<>> THEN <<>>
    ELSE IF Len(texts) = 1 THEN texts[1]
    ELSE texts[1] \o <<Comma>> \o JoinComma(Tail(texts))

JObj(pairs) == <<LBrace>> \o JoinComma(pairs) \o <<RBrace>>
JArr(values) == <<LBracket>> \o JoinComma(values) \o <<RBracket>>

JExperience(company, description) ==
    JObj(<<JPair("company_name", JStr(company)), JPair("position", JStr("Eng")),
           JPair("period", JStr("2020")), JPair("description", description)>>)

RefinedOne == JObj(<<JPair("work_experiences",
                         JArr(<<JExperience("Acme", JStr("refined"))>>))>>)
RefinedTwo == JObj(<<JPair("work_experiences",
                         JArr(<<JExperience("Acme", JStr("refined")),
                                JExperience("Beta", JStr("led"))>>))>>)
RefinedNullDescription ==
    JObj(<<JPair("work_experiences", JArr(<<JExperience("Acme", <<"null">>)>>))>>)

\* The responses of the refinement stage in a pipeline run.
RefinementResponses ==
    { RefinedOne,
      RefinedTwo,
      <<"Here", Blank>> \o RefinedOne \o <<Blank, "done">>,
      RefinedNullDescription,
      <<"sorry">>,
      <<LBrace, "oops", RBrace>>,
      <<RBrace, Blank, LBrace>>,
      JObj(<<JPair("work_experiences", JArr(<<>>))>>),
      JObj(<<JPair("work_experiences", <<"5">>)>>),
      JObj(<<JPair("note", JStr("none"))>>) }

\* The responses of the supplement integration in an upgrade.
SupplementResponses ==
    { JObj(<<JPair("name", JStr("Taro")), JPair("summary", JStr("new"))>>),
      <<"sorry">>,
      <<LBrace, "oops", RBrace>> }

\* The responses of the improvement suggestion agent.
SuggestionResponses ==
    { JObj(<<JPair("suggestions", JArr(<<JStr("add-metrics")>>)),
             JPair("prompt_text", JStr("tell-more"))>>),
      <<"sorry">> }

\* The responses a direct call of the suggestion agent is given: the ones
\* above, an object that has only one of the two keys or neither, a
\* number under suggestions, and braces around something that is no JSON.
SuggestionAgentResponses ==
    SuggestionResponses
    \cup { JObj(<<JPair("suggestions", JArr(<<JStr("add-metrics")>>))>>),
           JObj(<<JPair("prompt_text", JStr("tell-more"))>>),
           JObj(<<JPair("note", JStr("none"))>>),
           JObj(<<JPair("suggestions", <<"5">>)>>),
           <<LBrace, "oops", RBrace>> }

Outcomes(responses) == {LLMRaises} \cup { LLMReturns(r) : r \in responses }

\* The contents of the supplementary text area.
SupplementTexts == { <<>>, <<Blank>>, <<"more">>, <<Blank, "more", Blank>> }

\* text.strip()
RECURSIVE Strip(_)
Strip(text) ==
    IF text = <<>> THEN <<>>
    ELSE IF Head(text) = Blank THEN Strip(Tail(text))
    ELSE IF text[Len(text)] = Blank THEN Strip(SubSeq(text, 1, Len(text) - 1))
    ELSE text

\* A str of the session whose characters matter, as a text.
PyText(t) == [text |-> t]
IsText(v) == "text" \in DOMAIN v

\* The bytes data_to_pdf writes for a record.
Pdf(resume_data) == [pdf_of |-> resume_data]


(***************************************************************************)
(* Direct calls of one agent's run(), or of step 3 alone: the prose an LLM *)
(* puts around its JSON is up to MaxProse units before and after it.       *)
(***************************************************************************)
MaxProse == 2

PrefixUnits == {"text", Blank, RBrace}
SuffixUnits == {"text", Blank}

Prose(units) == UNION { [1..n -> units] : n \in 0..MaxProse }

Wrapped(responses) ==
    { p \o r \o s : p \in Prose(PrefixUnits), r \in responses,
                    s \in Prose(SuffixUnits) }

JobForm(job_title) ==
    PyDict([job_title |-> PyStr(job_title),
            company_info |-> PyDict([name |-> PyStr("Initech")]),
            job_description |-> PyStr("Python backend")])

\* The profiles step 3 is called with: any list of experiences, none included.
Profiles == { UserInput(PyDict(FormUserData("Taro", e))) : e \in ExperienceLists }

\* The experience texts the refinement agent is called with.
ExperienceTexts ==
    { <<>>, NoEntryText,
      FormatExperience([company_name |-> PyStr("Acme"), position |-> PyStr("Eng"),
                        period |-> PyStr("2020"), description |-> PyStr("built")]) }

\* The records the supplement and suggestion agents are called with: one
\* that generate_resume built, one that an earlier integration returned, and
\* one whose work_experiences an earlier integration made a number.
Records ==
    { _extract_structured_data(
          UserInput(PyDict(FormUserData("Taro",
              <<PyDict([company_name |-> PyStr("Acme"), position |-> PyStr("Eng"),
                        period |-> PyStr("2020"),
                        description |-> PyStr("built")])>>))),
          JobRequirements(JobForm("SRE")), PyList(<<>>)),
      PyDict([name |-> PyStr("Taro"), summary |-> PyStr("old")]),
      PyDict([name |-> PyStr("Taro"), work_experiences |-> PyNum("5")]) }

AgentCalls ==
    { [agent |-> "refinement", work_experiences |-> w, llm |-> l] :
          w \in ExperienceTexts,
          l \in Outcomes(Wrapped(RefinementResponses)) }
    \cup { [agent |-> "refinement_step", user_input |-> u, llm |-> l] :
              u \in Profiles, l \in Outcomes(RefinementResponses) }
    \cup { [agent |-> "supplement", resume_data |-> r, supplement_info |-> t,
            llm |-> l] :
              r \in Records, t \in SupplementTexts,
              l \in Outcomes(Wrapped(SupplementResponses)) }
    \cup { [agent |-> "suggestion", resume_data |-> r, llm |-> l] :
              r \in Records, l \in Outcomes(Wrapped(SuggestionAgentResponses)) }

(***************************************************************************)
(* The form cache (db/form_data_manager.py): two SQLite tables, user_input *)
(* and job_requirements.  A table is the sequence of its rows in rowid     *)
(* order; nothing modelled here deletes a row, so AUTOINCREMENT gives the  *)
(* next row the id Len(table) + 1.  A row is                               *)
(*   [id, columns, updated_at, hash]                                       *)
(* where columns maps the column names to the values bound by the INSERT   *)
(* and updated_at is CURRENT_TIMESTAMP, whole seconds.                     *)
(***************************************************************************)
\* Every key of the payloads, in the order sort_keys=True puts them.
KeyOrder ==
    <<"appeal_points", "company_info", "company_name", "culture",
      "description", "design_tools", "email", "frameworks", "industry",
      "job_description", "job_title", "name", "period", "personal_projects",
      "portfolio_url", "position", "preferred_skills",
      "programming_languages", "qualifications", "required_skills",
      "residence", "responsibilities", "size", "testing_tools", "values",
      "work_experiences", "years_of_experience">>

\* A dict whose keys were inserted in the given order.
OrderedDict(f, order) == [dict |-> f, order |-> order]

\* The keys of a dict in the order json.dumps writes them: sorted, or as
\* inserted (a dict that records no insertion order was built in the sorted one).
KeysOf(d, sort_keys) ==
    IF sort_keys \/ "order" \notin DOMAIN d
    THEN SelectSeq(KeyOrder, LAMBDA k : k \in DOMAIN d.dict)
    ELSE d.order

\* ", ".join(texts)
RECURSIVE JoinItems(_)
JoinItems(texts) ==
    IF texts = <<>> THEN <<>>
    ELSE IF Len(texts) = 1 THEN texts[1]
    ELSE texts[1] \o <<Comma, Blank>> \o JoinItems(Tail(texts))

\* json.dumps(v, sort_keys=sort_keys)
RECURSIVE json_dumps(_, _)
json_dumps(v, sort_keys) ==
    CASE IsNone(v) -> <<"null">>
      [] IsStr(v) -> JStr(v.str)
      [] IsNum(v) -> <<v.num>>
      [] IsList(v) ->
           <<LBracket>>
           \o JoinItems([i \in 1..Len(v.list) |-> json_dumps(v.list[i], sort_keys)])
           \o <<RBracket>>
      [] IsDict(v) ->
           LET keys == KeysOf(v, sort_keys)
           IN  <<LBrace>>
               \o JoinItems([i \in 1..Len(keys) |->
                      JStr(keys[i]) \o <<Colon, Blank>>
                      \o json_dumps(v.dict[keys[i]], sort_keys)])
               \o <<RBrace>>

\* _calculate_hash(data): SHA-256 of the sorted-key serialization; the
\* digest is written as the text it is the digest of (no two texts of
\* this model collide).
_calculate_hash(data) == json_dumps(data, TRUE)

\* A value sqlite3 can bind to a TEXT column: None or a str.
Bindable(v) == IsNone(v) \/ IsStr(v)

\* The values save_user_input binds to the INSERT (lines 169-180).
UserColumns(user_data) ==
    [name |-> DictGet(user_data, "name", PyStr("")),
     residence |-> DictGet(user_data, "residence", PyStr("")),
     job_title |-> DictGet(user_data, "job_title", PyStr("")),
     years_of_experience |-> DictGet(user_data, "years_of_experience", PyStr("")),
     appeal_points |-> DictGet(user_data, "appeal_points", PyStr("")),
     programming_languages |-> json_dumps(DictGet(user_data, "programming_languages", PyList(<<>>)), FALSE),
     frameworks |-> json_dumps(DictGet(user_data, "frameworks", PyList(<<>>)), FALSE),
     testing_tools |-> json_dumps(DictGet(user_data, "testing_tools", PyList(<<>>)), FALSE),
     design_tools |-> json_dumps(DictGet(user_data, "design_tools", PyList(<<>>)), FALSE),
     work_experiences |-> json_dumps(DictGet(user_data, "work_experiences", PyList(<<>>)), FALSE),
     personal_projects |-> json_dumps(DictGet(user_data, "personal_projects", PyList(<<>>)), FALSE),
     portfolio_url |-> DictGet(user_data, "portfolio_url", PyStr(""))]

UserTextColumns ==
    {"name", "residence", "job_title", "years_of_experience", "appeal_points",
     "portfolio_url"}

\* name TEXT NOT NULL (line 32)
UserNotNull == {"name"}

\* The values save_job_requirements binds to the INSERT (lines 214-226).
JobColumns(job_data, company_info) ==
    [job_title |-> DictGet(job_data, "job_title", PyStr("")),
     company_name |-> DictGet(company_info, "name", PyStr("")),
     industry |-> DictGet(company_info, "industry", PyStr("")),
     company_size |-> DictGet(company_info, "size", PyStr("")),
     culture |-> DictGet(company_info, "culture", PyStr("")),
     company_values |-> json_dumps(DictGet(company_info, "values", PyList(<<>>)), FALSE),
     job_description |-> DictGet(job_data, "job_description", PyStr("")),
     required_skills |-> json_dumps(DictGet(job_data, "required_skills", PyList(<<>>)), FALSE),
     preferred_skills |-> json_dumps(DictGet(job_data, "preferred_skills", PyList(<<>>)), FALSE),
     responsibilities |-> json_dumps(DictGet(job_data, "responsibilities", PyList(<<>>)), FALSE),
     qualifications |-> json_dumps(DictGet(job_data, "qualifications", PyList(<<>>)), FALSE)]

JobTextColumns ==
    {"job_title", "company_name", "industry", "company_size", "culture",
     "job_description"}

\* job_title, company_name and job_description are TEXT NOT NULL (lines 104-110).
JobNotNull == {"job_title", "company_name", "job_description"}

\* An int, as lastrowid and the id column are.
PyInt(n) == [int |-> n]

EmptyDb == [user_input |-> <<>>, job_requirements |-> <<>>]

\* SELECT id FROM <table> WHERE hash = ?  (fetchone: the row or None)
IdOfHash(table, data_hash) ==
    IF \E i \in 1..Len(table) : table[i].hash = data_hash
    THEN PyInt(table[CHOOSE i \in 1..Len(table) : table[i].hash = data_hash].id)
    ELSE PyNone

Saved(db, ret) == [db |-> db, ret |-> ret]

\* A variant of Insert without the UNIQUE constraint on hash.
InsertNotUnique(db, table, columns, texts, not_null, data_hash, now) ==
    IF \E c \in texts : ~Bindable(columns[c])
    THEN Saved(db, Raise("ProgrammingError", 0))
    ELSE IF \E c \in not_null : IsNone(columns[c])
    THEN Saved(db, Return(IdOfHash(db[table], data_hash), 0))
    ELSE Saved([db EXCEPT ![table] =
                    Append(@, [id |-> Len(@) + 1, columns |-> columns,
                               updated_at |-> now, hash |-> data_hash])],
               Return(PyInt(Len(db[table]) + 1), 0))

\* The try block of a save: the INSERT and the commit return lastrowid; a
\* value that is not a str or None cannot be bound (ProgrammingError leaves
\* the method); a NULL in a NOT NULL column or a hash already in the table
\* is an IntegrityError, and the handler returns the id of the row with
\* that hash, or None.
Insert(db, table, columns, texts, not_null, data_hash, now) ==
    IF \E c \in texts : ~Bindable(columns[c])
    THEN Saved(db, Raise("ProgrammingError", 0))
    ELSE IF \/ \E c \in not_null : IsNone(columns[c])
            \/ \E i \in 1..Len(db[table]) : db[table][i].hash = data_hash
    THEN Saved(db, Return(IdOfHash(db[table], data_hash), 0))
    ELSE Saved([db EXCEPT ![table] =
                    Append(@, [id |-> Len(@) + 1, columns |-> columns,
                               updated_at |-> now, hash |-> data_hash])],
               Return(PyInt(Len(db[table]) + 1), 0))

\* save_user_input(user_data) at the second now; available is false when
\* SQLite cannot open or write the file (sqlite3.OperationalError).
save_user_input(db, user_data, now, available) ==
    IF ~available THEN Saved(db, Raise("OperationalError", 0))
    ELSE Insert(db, "user_input", UserColumns(user_data), UserTextColumns,
                UserNotNull, _calculate_hash(user_data), now)

\* save_job_requirements(job_data) at the second now.
save_job_requirements(db, job_data, now, available) ==
    IF ~available THEN Saved(db, Raise("OperationalError", 0))
    ELSE IF ~IsDict(DictGet(job_data, "company_info", PyDict(EmptyDict)))
    THEN Saved(db, Raise("AttributeError", 0))
    ELSE Insert(db, "job_requirements",
                JobColumns(job_data, DictGet(job_data, "company_info", PyDict(EmptyDict))),
                JobTextColumns, JobNotNull, _calculate_hash(job_data), now)

\* ORDER BY updated_at DESC LIMIT 1: a row no other row is newer than.  SQL
\* leaves the choice among rows of one second open.
LatestRows(table) ==
    { i \in 1..Len(table) :
          \A j \in 1..Len(table) : table[j].updated_at <= table[i].updated_at }

\* json.loads(text) if text else []  (a stored text is never empty)
LoadedColumn(text) == json_loads(text).val

\* The dict get_latest_user_input builds of a row (lines 256-270).
UserRowDict(row) ==
    PyDict([id |-> PyInt(row.id),
            name |-> row.columns.name,
            residence |-> row.columns.residence,
            job_title |-> row.columns.job_title,
            years_of_experience |-> row.columns.years_of_experience,
            appeal_points |-> row.columns.appeal_points,
            programming_languages |-> LoadedColumn(row.columns.programming_languages),
            frameworks |-> LoadedColumn(row.columns.frameworks),
            testing_tools |-> LoadedColumn(row.columns.testing_tools),
            design_tools |-> LoadedColumn(row.columns.design_tools),
            work_experiences |-> LoadedColumn(row.columns.work_experiences),
            personal_projects |-> LoadedColumn(row.columns.personal_projects),
            portfolio_url |-> row.columns.portfolio_url])

\* The dict get_latest_job_requirements builds of a row (lines 292-307).
JobRowDict(row) ==
    PyDict([job_title |-> row.columns.job_title,
            company_info |->
                PyDict([name |-> row.columns.company_name,
                        industry |-> row.columns.industry,
                        size |-> row.columns.company_size,
                        culture |-> row.columns.culture,
                        values |-> LoadedColumn(row.columns.company_values)]),
            job_description |-> row.columns.job_description,
            required_skills |-> LoadedColumn(row.columns.required_skills),
            preferred_skills |-> LoadedColumn(row.columns.preferred_skills),
            responsibilities |-> LoadedColumn(row.columns.responsibilities),
            qualifications |-> LoadedColumn(row.columns.qualifications)])

\* What get_latest_user_input can return: None of an empty table.
get_latest_user_input(db) ==
    IF db.user_input = <<>> THEN {PyNone}
    ELSE { UserRowDict(db.user_input[i]) : i \in LatestRows(db.user_input) }

\* What get_latest_job_requirements can return.
get_latest_job_requirements(db) ==
    IF db.job_requirements = <<>> THEN {PyNone}
    ELSE { JobRowDict(db.job_requirements[i]) : i \in LatestRows(db.job_requirements) }

(***************************************************************************)
(* The semantic store (rag/vector_store.py, rag/document_manager.py).  A   *)
(* collection maps the ids of its chunks to their texts; the texts of      *)
(* this model are shorter than chunk_size and make one chunk each.         *)
(***************************************************************************)
EmptyStore == [job_postings |-> EmptyDict, company_info |-> EmptyDict]

\* add_texts(texts, ids) of one chunk: the chunk is written under its id.
add_texts(collection, id, content) == (id :> content) @@ collection

\* company_name.lower().replace(" ", "_") of the names of this model
CompanyId(company_name) ==
    IF company_name = "Initech" THEN "initech" ELSE company_name

Stored(store, exc) == [vector_store |-> store, exc |-> exc]

\* store_job_application_context: the job posting, then the company;
\* available is false when the embedding service cannot be reached, which
\* fails the first add_texts.
store_job_application_context(store, job_id, job_description, company_name, company_info, available) ==
    IF ~available THEN Stored(store, "APIConnectionError")
    ELSE Stored([store EXCEPT
                    !.job_postings =
                        add_texts(@, job_id \o "_0", job_description),
                    !.company_info =
                        add_texts(@, CompanyId(company_name) \o "_0",
                                  company_info)],
                "none")

(***************************************************************************)
(* The state.                                                              *)
(*   session_state  st.session_state of app.py (lines 38-58)               *)
(*   form_data      what render_input_form returns: the content of the     *)
(*                  form's widgets, which the session keeps                *)
(*   pc             where the running code is: "idle" between two runs of  *)
(*                  the script, "returned" when a direct call of           *)
(*                  generate_resume is over, else the stage about to run   *)
(*   user_input, job_requirements, results, refined_experiences            *)
(*                  the locals of main() and generate_resume()             *)
(*   refinement_output  what the refinement agent's run() did in this run, *)
(*                  and what the LLM did if the agent invoked it           *)
(*   llm_log        the LLM invocations of this run in their order: the    *)
(*                  stage whose agent made it, and what the LLM did        *)
(*   shown          the message the last run of the script displayed       *)
(*   call, ret      a direct call (of generate_resume, of an agent's       *)
(*                  run(), of step 3, of the form cache) and its outcome   *)
(*   db             the tables of the form cache (form_data.db)            *)
(*   vector_store   the collections of the semantic store (./chroma_db)    *)
(*   clock          the time of day in whole seconds, as SQLite's          *)
(*                  CURRENT_TIMESTAMP gives it                             *)
(***************************************************************************)
VARIABLES session_state, form_data, pc, user_input, job_requirements, results,
          refined_experiences, refinement_output, llm_log, shown, call, ret,
          db, vector_store, clock

vars == <<session_state, form_data, pc, user_input, job_requirements, results,
          refined_experiences, refinement_output, llm_log, shown, call, ret,
          db, vector_store, clock>>

stores == <<db, vector_store, clock>>

locals == <<user_input, job_requirements, results, refined_experiences,
            refinement_output>>

NoCall == [agent |-> "none"]
NoOutput == [exc |-> "not-called", value |-> PyNone, llm_calls |-> 0]
NoRefinement == [output |-> NoOutput, llm |-> PyNone]
Shown(kind, detail) == [kind |-> kind, detail |-> detail]
Nothing == Shown("none", "")

\* app.py lines 38-58
InitialSessionState ==
    [resume_generated |-> FALSE,
     results |-> PyNone,
     user_input_obj |-> PyNone,
     job_requirements_obj |-> PyNone,
     suggestions |-> PyNone,
     prompt_text |-> PyStr(""),
     updated_pdf_bytes |-> PyNone,
     processing |-> FALSE,
     do_upgrade_input |-> PyNone,
     do_regenerate_suggestions |-> FALSE]

FormData ==
    { [user_input |-> u, job_requirements |-> j] :
          u \in UserForms, j \in JobForms }

\* Nothing runs: no script, no call.
Idle ==
    /\ session_state = InitialSessionState
    /\ pc = "idle"
    /\ user_input = PyNone
    /\ job_requirements = PyNone
    /\ results = EmptyDict
    /\ refined_experiences = PyList(<<>>)
    /\ refinement_output = NoRefinement
    /\ llm_log = <<>>
    /\ shown = Nothing
    /\ ret = NoOutput

\* The cache and the store are empty and the clock is at its origin.
NoStores ==
    /\ db = EmptyDb
    /\ vector_store = EmptyStore
    /\ clock = 0

Init ==
    /\ Idle
    /\ NoStores
    /\ form_data \in FormData
    /\ call = NoCall

\* The script ends (st.stop, st.rerun or its last line), or a call returns:
\* the locals are gone.
EndOfRun ==
    /\ pc' = "idle"
    /\ user_input' = PyNone
    /\ job_requirements' = PyNone
    /\ results' = EmptyDict
    /\ refined_experiences' = PyList(<<>>)
    /\ refinement_output' = NoRefinement

\* results[key] = value
SetItem(d, key, value) == (key :> value) @@ d

(***************************************************************************)
(* The input page (app.py lines 109-256).                                  *)
(***************************************************************************)
\* Lines 96-101: the reset button of the sidebar.
Reset ==
    /\ pc = "idle"
    /\ session_state' = [session_state EXCEPT !.resume_generated = FALSE,
                                              !.results = PyNone,
                                              !.user_input_obj = PyNone,
                                              !.job_requirements_obj = PyNone]
    /\ shown' = Nothing
    /\ UNCHANGED <<form_data, pc, locals, llm_log, call, ret>>
    /\ UNCHANGED stores

\* Lines 118-124: the generate button, enabled while processing is False.
ClickGenerate ==
    /\ pc = "idle"
    /\ ~session_state.resume_generated
    /\ ~session_state.processing
    /\ session_state' = [session_state EXCEPT !.processing = TRUE]
    /\ shown' = Nothing
    /\ UNCHANGED <<form_data, pc, locals, llm_log, call, ret>>
    /\ UNCHANGED stores

\* generate_resume lines 44-45: the arguments are bound and results is empty.
Entered(user_input_obj, job_requirements_obj) ==
    /\ user_input' = user_input_obj
    /\ job_requirements' = job_requirements_obj
    /\ results' = EmptyDict
    /\ refined_experiences' = PyList(<<>>)
    /\ refinement_output' = NoRefinement
    /\ llm_log' = <<>>
    /\ pc' = "company_analysis"

\* Lines 178-184: both saves, the second if the first returns; available
\* is false when the database file cannot be written.
FormDataSaved(cache, user_data, job_data, now, available) ==
    LET u == save_user_input(cache, user_data, now, available)
    IN  IF u.ret.exc # "none" THEN u
        ELSE save_job_requirements(u.db, job_data, now, available)

\* A variant of SaveError without the try of lines 177-190.
SaveErrorUncaught(saved) == saved.ret.exc

\* Lines 177-190: the exception that leaves the block.  except Exception
\* prints a warning, so none does.
SaveError(saved) == "none"

\* Lines 132-194 once both validations are done.
Validated(user_data, job_data, user_check, job_check, saved) ==
    IF ~user_check.valid \/ ~job_check.valid
    THEN /\ session_state' = [session_state EXCEPT !.processing = FALSE]
         /\ shown' = Shown("validation_error",
                           IF ~user_check.valid THEN "user" ELSE "job")
         /\ UNCHANGED <<pc, locals, llm_log, db>>
    ELSE IF ConversionRaises(user_data, job_data)
    THEN /\ shown' = Shown("conversion_error", "")
         /\ UNCHANGED <<session_state, pc, locals, llm_log, db>>
    ELSE IF SaveError(saved) # "none"
    THEN /\ session_state' =
                [session_state EXCEPT
                    !.user_input_obj = UserInput(user_data),
                    !.job_requirements_obj = JobRequirements(job_data)]
         /\ db' = saved.db
         /\ shown' = Shown("conversion_error", "")
         /\ UNCHANGED <<pc, locals, llm_log>>
    ELSE /\ session_state' =
                [session_state EXCEPT
                    !.user_input_obj = UserInput(user_data),
                    !.job_requirements_obj = JobRequirements(job_data)]
         /\ db' = saved.db
         /\ Entered(UserInput(user_data), JobRequirements(job_data))
         /\ shown' = Nothing

\* Lines 127-194: validation and conversion of the form data, and the save
\* of the form data to the cache.
StartGeneration ==
    /\ pc = "idle"
    /\ session_state.processing
    /\ ~session_state.resume_generated
    /\ \E available \in BOOLEAN :
           Validated(form_data["user_input"], form_data["job_requirements"],
                     validate_user_input(form_data["user_input"]),
                     validate_job_requirements(form_data["job_requirements"]),
                     FormDataSaved(db, form_data["user_input"],
                                   form_data["job_requirements"], clock, available))
    /\ UNCHANGED <<form_data, call, ret, vector_store, clock>>

\* generate_resume called by another caller than main(), which validates
\* nothing and holds no session: any profile the models accept, one without
\* work experiences included.
CallGenerateResume ==
    /\ Idle
    /\ call = NoCall
    /\ ~ConversionRaises(form_data["user_input"], form_data["job_requirements"])
    /\ call' = [agent |-> "generate_resume"]
    /\ Entered(UserInput(form_data["user_input"]),
               JobRequirements(form_data["job_requirements"]))
    /\ UNCHANGED <<session_state, form_data, shown, ret>>
    /\ UNCHANGED stores

\* The caller has the outcome of generate_resume.
ReturnToCaller ==
    /\ pc = "returned"
    /\ EndOfRun
    /\ llm_log' = <<>>
    /\ call' = NoCall
    /\ ret' = NoOutput
    /\ UNCHANGED <<session_state, form_data, shown>>
    /\ UNCHANGED stores

\* Lines 253-256: an exception of generate_resume or generate_summary.
GenerationExcept(stage) ==
    /\ session_state' = [session_state EXCEPT !.processing = FALSE]
    /\ shown' = Shown("generation_error", stage)
    /\ EndOfRun

\* An exception leaves generate_resume: main() catches it (lines 253-256),
\* another caller receives it.
Propagated(stage, output) ==
    IF call = NoCall
    THEN /\ GenerationExcept(stage)
         /\ UNCHANGED <<call, ret>>
    ELSE /\ ret' = Raise(output.exc, 0)
         /\ pc' = "returned"
         /\ UNCHANGED <<session_state, shown, locals, call>>

\* The LLM invocations an agent made are appended to the log.
Logged(stage, n, llm) ==
    llm_log \o [i \in 1..n |-> [stage |-> stage, raised |-> llm.raises]]

\* A variant of StageReturned that goes on to the assembly of the record
\* whatever stage is next.
StageReturnedSkipping(stage, output, value_key, key, next, llm) ==
    /\ llm_log' = Logged(stage, output.llm_calls, llm)
    /\ IF output.exc # "none"
       THEN Propagated(stage, output)
       ELSE /\ results' = SetItem(results, key, output.value.dict[value_key])
            /\ pc' = "assembly"
            /\ UNCHANGED <<session_state, user_input, job_requirements,
                           refined_experiences, refinement_output, shown,
                           call, ret>>

\* A variant of StageReturned that catches the exception of the stage and
\* goes on with an empty text.
StageReturnedCatching(stage, output, value_key, key, next, llm) ==
    /\ llm_log' = Logged(stage, output.llm_calls, llm)
    /\ results' = SetItem(results, key,
                      IF output.exc # "none" THEN PyStr("")
                      ELSE output.value.dict[value_key])
    /\ pc' = next
    /\ UNCHANGED <<session_state, user_input, job_requirements,
                   refined_experiences, refinement_output, shown, call, ret>>

\* A plain-text stage is over: its text is stored under key and the next
\* stage follows, or its exception leaves generate_resume.
StageReturned(stage, output, value_key, key, next, llm) ==
    /\ llm_log' = Logged(stage, output.llm_calls, llm)
    /\ IF output.exc # "none"
       THEN Propagated(stage, output)
       ELSE /\ results' = SetItem(results, key, output.value.dict[value_key])
            /\ pc' = next
            /\ UNCHANGED <<session_state, user_input, job_requirements,
                           refined_experiences, refinement_output, shown,
                           call, ret>>

\* generate_resume lines 46-52
CompanyAnalysis ==
    /\ pc = "company_analysis"
    /\ \E llm \in Outcomes({<<"A1">>}) :
          StageReturned("company_analysis",
              CompanyAnalysisAgent_run(
                  [company_info |-> job_requirements.company_info,
                   job_description |-> job_requirements.job_description], llm),
              "analysis", "company_analysis", "requirements", llm)
    /\ UNCHANGED form_data
    /\ UNCHANGED stores

\* generate_resume lines 54-59
RequirementsExtraction ==
    /\ pc = "requirements"
    /\ \E llm \in Outcomes({<<"R1">>}) :
          StageReturned("requirements",
              RequirementsExtractionAgent_run(
                  RequirementsInput(job_requirements, results), llm),
              "requirements", "requirements_analysis", "refinement", llm)
    /\ UNCHANGED form_data
    /\ UNCHANGED stores

\* The stage has invoked the LLM in this run.
Invoked(stage) == \E i \in 1..Len(llm_log) : llm_log[i].stage = stage

\* A variant of RefinementStored that builds results anew from the two
\* analyses and the refined list.
RefinementStoredAnew(step, llm) ==
    /\ refined_experiences' = step.refined
    /\ refinement_output' =
          [output |-> step.output,
           llm |-> IF step.llm_calls = 0 THEN PyNone ELSE llm]
    /\ results' = [company_analysis |-> results["company_analysis"],
                   requirements_analysis |-> results["requirements_analysis"],
                   refined_work_experiences |-> step.refined]
    /\ llm_log' = Logged("refinement", step.llm_calls, llm)

\* Lines 74-95 once step 3 is over.
RefinementStored(step, llm) ==
    /\ refined_experiences' = step.refined
    /\ refinement_output' =
          [output |-> step.output,
           llm |-> IF step.llm_calls = 0 THEN PyNone ELSE llm]
    /\ results' = SetItem(results, "refined_work_experiences", step.refined)
    /\ llm_log' = Logged("refinement", step.llm_calls, llm)

\* generate_resume lines 61-95
WorkExperienceRefinement ==
    /\ pc = "refinement"
    /\ \E llm \in Outcomes(RefinementResponses) :
          RefinementStored(
              RefinementStep(user_input, job_requirements, results, llm), llm)
    /\ pc' = "structure"
    /\ UNCHANGED <<session_state, form_data, user_input, job_requirements, shown,
                   call, ret>>
    /\ UNCHANGED stores

\* generate_resume lines 97-104
StructurePlan ==
    /\ pc = "structure"
    /\ \E llm \in Outcomes({<<"P1">>}) :
          StageReturned("structure",
              ResumeStructureAgent_run(StructureInput(results), llm),
              "structure_plan", "structure_plan", "assembly", llm)
    /\ UNCHANGED form_data
    /\ UNCHANGED stores

\* A variant of Assembled that puts an empty text in place of the
\* structure plan when it stores the record.
AssembledOverPlan(resume_data) ==
    /\ results' = SetItem(SetItem(results, "resume_data", resume_data),
                          "structure_plan", PyStr(""))
    /\ IF call = NoCall
       THEN /\ pc' = "summary"
            /\ UNCHANGED ret
       ELSE /\ pc' = "returned"
            /\ ret' = Return(PyDict(SetItem(results, "resume_data", resume_data)), 0)

\* Lines 107-109: the record is stored and generate_resume returns results,
\* to main() (app.py line 203) or to another caller.
Assembled(resume_data) ==
    /\ results' = SetItem(results, "resume_data", resume_data)
    /\ IF call = NoCall
       THEN /\ pc' = "summary"
            /\ UNCHANGED ret
       ELSE /\ pc' = "returned"
            /\ ret' = Return(PyDict(SetItem(results, "resume_data", resume_data)), 0)

\* generate_resume lines 106-109
DocumentAssembly ==
    /\ pc = "assembly"
    /\ Assembled(_extract_structured_data(user_input, job_requirements,
                                          refined_experiences))
    /\ UNCHANGED <<session_state, user_input, job_requirements,
                   refined_experiences, refinement_output, llm_log, shown,
                   form_data, call>>
    /\ UNCHANGED stores

\* A variant of SummaryReturnedToMain that also writes the summary into the
\* appeal points of the profile.
SummaryWrittenToProfile(summary, llm) ==
    /\ llm_log' = Logged("summary", summary.llm_calls, llm)
    /\ IF summary.exc # "none"
       THEN GenerationExcept("summary")
       ELSE /\ results' =
                 SetItem(SetItem(results, "generated_summary", summary.value),
                         "resume_data",
                         PyDict(SetItem(results["resume_data"].dict,
                                        "summary", summary.value)))
            /\ user_input' = [user_input EXCEPT !.appeal_points = summary.value]
            /\ pc' = "suggestions"
            /\ UNCHANGED <<session_state, job_requirements,
                           refined_experiences, refinement_output, shown>>

\* app.py lines 212-215 once generate_summary is over, or line 253.
SummaryReturnedToMain(summary, llm) ==
    /\ llm_log' = Logged("summary", summary.llm_calls, llm)
    /\ IF summary.exc # "none"
       THEN GenerationExcept("summary")
       ELSE /\ results' =
                 SetItem(SetItem(results, "generated_summary", summary.value),
                         "resume_data",
                         PyDict(SetItem(results["resume_data"].dict,
                                        "summary", summary.value)))
            /\ pc' = "suggestions"
            /\ UNCHANGED <<session_state, user_input, job_requirements,
                           refined_experiences, refinement_output, shown>>

\* app.py lines 205-215
SummaryGeneration ==
    /\ pc = "summary"
    /\ \E llm \in Outcomes({<<"S1">>}) :
          SummaryReturnedToMain(
              generate_summary(user_input, job_requirements,
                               results["company_analysis"],
                               results["requirements_analysis"], llm), llm)
    /\ UNCHANGED <<form_data, call, ret>>
    /\ UNCHANGED stores

\* Lines 223-228 and 364-365: the suggestions and the prompt text the
\* session keeps, the empty ones of the except branch in a generation.
SuggestionsKept(state, suggestions_result) ==
    IF suggestions_result.exc # "none"
    THEN [state EXCEPT !.suggestions = PyList(<<>>), !.prompt_text = PyStr("")]
    ELSE [state EXCEPT
             !.suggestions = DictGet(suggestions_result.value,
                                     "suggestions", PyList(<<>>)),
             !.prompt_text = DictGet(suggestions_result.value,
                                     "prompt_text", PyStr(""))]

\* Lines 218-228 once generate_improvement_suggestions is over.
SuggestionsReturned(suggestions_result, llm) ==
    /\ session_state' = SuggestionsKept(session_state, suggestions_result)
    /\ llm_log' = Logged("suggestions", suggestions_result.llm_calls, llm)

\* app.py lines 217-228
ImprovementSuggestions ==
    /\ pc = "suggestions"
    /\ \E llm \in Outcomes(SuggestionResponses) :
          SuggestionsReturned(
              generate_improvement_suggestions(results["resume_data"],
                                               job_requirements, llm), llm)
    /\ pc' = "store"
    /\ UNCHANGED <<form_data, locals, shown, call, ret>>
    /\ UNCHANGED stores

\* Lines 236-249: the write to the semantic store; except Exception prints
\* a warning.
RagStored(store, job_req, available) ==
    store_job_application_context(
        store,
        job_req.company_info.dict["name"].str \o "_" \o job_req.job_title.str,
        job_req.job_description,
        job_req.company_info.dict["name"].str,
        job_req.company_info,
        available).vector_store

\* app.py lines 230-251
StoreResults ==
    /\ pc = "store"
    /\ session_state' = [session_state EXCEPT !.results = PyDict(results),
                                              !.resume_generated = TRUE,
                                              !.processing = FALSE]
    /\ shown' = Nothing
    /\ \E available \in BOOLEAN :
           vector_store' = RagStored(vector_store, job_requirements, available)
    /\ EndOfRun
    /\ UNCHANGED <<form_data, llm_log, call, ret, db, clock>>

(***************************************************************************)
(* The result page (app.py lines 258-426).                                 *)
(***************************************************************************)
\* Lines 296-305: the upgrade button, enabled while processing is False.
ClickUpgrade ==
    /\ pc = "idle"
    /\ session_state.resume_generated
    /\ ~session_state.processing
    /\ \E supplementary_info \in SupplementTexts :
          IF Strip(supplementary_info) # <<>>
          THEN /\ session_state' =
                      [session_state EXCEPT
                          !.processing = TRUE,
                          !.do_upgrade_input = PyText(Strip(supplementary_info))]
               /\ shown' = Nothing
          ELSE /\ shown' = Shown("warning", "no-supplement")
               /\ UNCHANGED session_state
    /\ UNCHANGED <<form_data, pc, locals, llm_log, call, ret>>
    /\ UNCHANGED stores

\* Lines 321-346 once integrate_supplement_info is over.  The record is
\* stored at line 322, before the PDF is rendered; pdf_ok is whether lines
\* 326-331 raise nothing.
UpgradeReturned(updated_data, pdf_ok) ==
    IF updated_data.exc # "none"
    THEN /\ session_state' = [session_state EXCEPT
                                 !.processing = FALSE,
                                 !.do_upgrade_input = PyNone]
         /\ shown' = Shown("upgrade_error", updated_data.exc)
    ELSE /\ session_state' =
                [session_state EXCEPT
                    !.results = PyDict(SetItem(session_state.results.dict,
                                    "resume_data", updated_data.value)),
                    !.updated_pdf_bytes =
                        IF pdf_ok THEN Pdf(updated_data.value) ELSE @,
                    !.processing = FALSE,
                    !.do_upgrade_input = PyNone]
         /\ shown' = IF pdf_ok THEN Shown("success", "upgrade")
                     ELSE Shown("upgrade_error", "pdf")

\* Lines 307-346: the upgrade.
RunUpgrade ==
    /\ pc = "idle"
    /\ session_state.resume_generated
    /\ session_state.processing
    /\ IsText(session_state.do_upgrade_input)
    /\ \E llm \in Outcomes(SupplementResponses), pdf_ok \in BOOLEAN :
          UpgradeReturned(
              integrate_supplement_info(
                  session_state.results.dict["resume_data"],
                  session_state.do_upgrade_input.text, llm), pdf_ok)
    /\ UNCHANGED <<form_data, pc, locals, llm_log, call, ret>>
    /\ UNCHANGED stores

\* Lines 348-353: the button that regenerates the suggestions.
ClickRegenerate ==
    /\ pc = "idle"
    /\ session_state.resume_generated
    /\ ~session_state.processing
    /\ session_state' = [session_state EXCEPT !.processing = TRUE,
                                              !.do_regenerate_suggestions = TRUE]
    /\ shown' = Nothing
    /\ UNCHANGED <<form_data, pc, locals, llm_log, call, ret>>
    /\ UNCHANGED stores

\* Lines 364-372 once generate_improvement_suggestions is over.
RegenerateReturned(suggestions_result) ==
    /\ session_state' =
          [(IF suggestions_result.exc # "none" THEN session_state
            ELSE SuggestionsKept(session_state, suggestions_result))
           EXCEPT !.processing = FALSE, !.do_regenerate_suggestions = FALSE]
    /\ shown' = IF suggestions_result.exc # "none"
                THEN Shown("suggestion_error", suggestions_result.exc)
                ELSE Nothing

\* Lines 355-372: the regeneration, reached when the upgrade block above
\* it did not run.
RunRegenerate ==
    /\ pc = "idle"
    /\ session_state.resume_generated
    /\ session_state.processing
    /\ ~IsText(session_state.do_upgrade_input)
    /\ session_state.do_regenerate_suggestions
    /\ \E llm \in Outcomes(SuggestionResponses) :
          RegenerateReturned(
              generate_improvement_suggestions(
                  session_state.results.dict["resume_data"],
                  session_state.job_requirements_obj, llm))
    /\ UNCHANGED <<form_data, pc, locals, llm_log, call, ret>>
    /\ UNCHANGED stores

Next ==
    \/ Reset
    \/ ClickGenerate
    \/ StartGeneration
    \/ CallGenerateResume
    \/ ReturnToCaller
    \/ CompanyAnalysis
    \/ RequirementsExtraction
    \/ WorkExperienceRefinement
    \/ StructurePlan
    \/ DocumentAssembly
    \/ SummaryGeneration
    \/ ImprovementSuggestions
    \/ StoreResults
    \/ ClickUpgrade
    \/ RunUpgrade
    \/ ClickRegenerate
    \/ RunRegenerate

Spec == Init /\ [][Next]_vars

(***************************************************************************)
(* Direct calls of the agents.  The call is drawn at the start; one action *)
(* per agent runs it and keeps the outcome in ret.                         *)
(***************************************************************************)
IdleFormData ==
    [user_input |-> PyDict(FormUserData("Taro", <<>>)),
     job_requirements |-> JobForm("SRE")]

AgentInit ==
    /\ Idle
    /\ NoStores
    /\ form_data = IdleFormData
    /\ call \in AgentCalls

Called(agent) ==
    /\ call.agent = agent
    /\ ret = NoOutput
    /\ UNCHANGED <<session_state, form_data, pc, locals, llm_log, shown, call>>
    /\ UNCHANGED stores

RunRefinementAgent ==
    /\ Called("refinement")
    /\ ret' = WorkExperienceRefinementAgent_run(
                  [work_experiences |-> call.work_experiences,
                   job_title |-> PyStr("SRE"),
                   job_requirements |-> PyStr("Python backend"),
                   requirements_analysis |-> PyStr("R1"),
                   company_analysis |-> PyStr("A1")], call.llm)

RunRefinementStep ==
    /\ Called("refinement_step")
    /\ ret' = RefinementStep(call.user_input, JobRequirements(JobForm("SRE")),
                             [requirements_analysis |-> PyStr("R1"),
                              company_analysis |-> PyStr("A1")], call.llm)

RunSupplementAgent ==
    /\ Called("supplement")
    /\ ret' = SupplementIntegrationAgent_run(
                  [resume_data |-> call.resume_data,
                   supplement_info |-> call.supplement_info], call.llm)

RunSuggestionAgent ==
    /\ Called("suggestion")
    /\ ret' = ImprovementSuggestionAgent_run(
                  [resume_data |-> call.resume_data,
                   job_title |-> PyStr("SRE"),
                   job_description |-> PyStr("Python backend")], call.llm)

AgentNext ==
    \/ RunRefinementAgent
    \/ RunRefinementStep
    \/ RunSupplementAgent
    \/ RunSuggestionAgent

AgentSpec == AgentInit /\ [][AgentNext]_vars

(***************************************************************************)
(* Stage 3 and stage 6 in either order.  main() runs the summary (app.py   *)
(* lines 206-212) after generate_resume has returned; here it may also run *)
(* at any point after stage 2, before or after stage 3, and its text is    *)
(* put into the record (line 215) once the record is assembled.            *)
(***************************************************************************)
\* The forms whose generation main() starts.
ValidFormData ==
    { f \in FormData :
          /\ validate_user_input(f["user_input"]).valid
          /\ validate_job_requirements(f["job_requirements"]).valid
          /\ ~ConversionRaises(f["user_input"], f["job_requirements"]) }

\* main() inside generate_resume, stage 2 just over (orchestrator.py line 59).
OrderInit ==
    /\ form_data \in ValidFormData
    /\ user_input = UserInput(form_data["user_input"])
    /\ job_requirements = JobRequirements(form_data["job_requirements"])
    /\ session_state =
          [InitialSessionState EXCEPT
              !.processing = TRUE,
              !.user_input_obj = UserInput(form_data["user_input"]),
              !.job_requirements_obj = JobRequirements(form_data["job_requirements"])]
    /\ pc = "refinement"
    /\ results = [company_analysis |-> TextOf(<<"A1">>),
                  requirements_analysis |-> TextOf(<<"R1">>)]
    /\ refined_experiences = PyList(<<>>)
    /\ refinement_output = NoRefinement
    /\ llm_log = <<[stage |-> "company_analysis", raised |-> FALSE],
                   [stage |-> "requirements", raised |-> FALSE]>>
    /\ shown = Nothing
    /\ call = NoCall
    /\ ret = NoOutput
    /\ db = FormDataSaved(EmptyDb, form_data["user_input"],
                          form_data["job_requirements"], 0, TRUE).db
    /\ vector_store = EmptyStore
    /\ clock = 0

\* app.py line 212 once generate_summary is over, or line 253.
EarlySummaryReturned(summary, llm) ==
    /\ llm_log' = Logged("summary", summary.llm_calls, llm)
    /\ IF summary.exc # "none"
       THEN GenerationExcept("summary")
       ELSE /\ results' = SetItem(results, "generated_summary", summary.value)
            /\ UNCHANGED <<session_state, pc, user_input, job_requirements,
                           refined_experiences, refinement_output, shown>>

\* app.py lines 206-212, run before generate_resume has returned.
EarlySummary ==
    /\ pc \in {"refinement", "structure", "assembly"}
    /\ ~Invoked("summary")
    /\ \E llm \in Outcomes({<<"S1">>}) :
          EarlySummaryReturned(
              generate_summary(user_input, job_requirements,
                               results["company_analysis"],
                               results["requirements_analysis"], llm), llm)
    /\ UNCHANGED <<form_data, call, ret>>
    /\ UNCHANGED stores

\* app.py lines 206-215 in their place, after generate_resume.
LateSummary ==
    /\ ~Invoked("summary")
    /\ SummaryGeneration

\* app.py line 215 for a summary that ran early: results["generated_summary"]
\* is put into the record (KeyError, caught at line 253, if it is not there).
MergeSummary ==
    /\ pc = "summary"
    /\ Invoked("summary")
    /\ IF "generated_summary" \in DOMAIN results
       THEN /\ results' =
                 SetItem(results, "resume_data",
                         PyDict(SetItem(results["resume_data"].dict, "summary",
                                        results["generated_summary"])))
            /\ pc' = "suggestions"
            /\ UNCHANGED <<session_state, user_input, job_requirements,
                           refined_experiences, refinement_output, shown>>
       ELSE GenerationExcept("summary")
    /\ UNCHANGED <<form_data, llm_log, call, ret>>
    /\ UNCHANGED stores

OrderNext ==
    \/ WorkExperienceRefinement
    \/ StructurePlan
    \/ DocumentAssembly
    \/ EarlySummary
    \/ LateSummary
    \/ MergeSummary

OrderSpec == OrderInit /\ [][OrderNext]_vars

(***************************************************************************)
(* Direct calls of the form cache: saves and reads in any order, while     *)
(* the clock advances.  call keeps the last call and its argument, ret     *)
(* what it returned.                                                       *)
(***************************************************************************)
MaxClock == 2

\* Payloads a caller saves: two dicts of the same content whose keys were
\* inserted in different orders, another user, and a dict whose name is
\* None.
UserPayloads ==
    { OrderedDict([name |-> PyStr("Taro"),
                   frameworks |-> PyList(<<PyStr("Django")>>)],
                  <<"name", "frameworks">>),
      OrderedDict([name |-> PyStr("Taro"),
                   frameworks |-> PyList(<<PyStr("Django")>>)],
                  <<"frameworks", "name">>),
      PyDict([name |-> PyStr("Hanako")]),
      PyDict([name |-> PyNone]) }

JobPayloads == JobForms

DbInit ==
    /\ Idle
    /\ NoStores
    /\ form_data = IdleFormData
    /\ call = NoCall

DbCalled(name, data, outcome) ==
    /\ call' = [agent |-> name, data |-> data]
    /\ ret' = outcome
    /\ UNCHANGED <<session_state, form_data, pc, locals, llm_log, shown,
                   vector_store, clock>>

UserInputSaved(user_data, saved) ==
    /\ db' = saved.db
    /\ DbCalled("save_user_input", user_data, saved.ret)

SaveUserInput ==
    \E user_data \in UserPayloads, available \in BOOLEAN :
        UserInputSaved(user_data,
                       save_user_input(db, user_data, clock, available))

JobRequirementsSaved(job_data, saved) ==
    /\ db' = saved.db
    /\ DbCalled("save_job_requirements", job_data, saved.ret)

SaveJobRequirements ==
    \E job_data \in JobPayloads, available \in BOOLEAN :
        JobRequirementsSaved(job_data,
                             save_job_requirements(db, job_data, clock, available))

GetLatestUserInput ==
    /\ \E latest \in get_latest_user_input(db) :
           DbCalled("get_latest_user_input", PyNone, Return(latest, 0))
    /\ UNCHANGED db

GetLatestJobRequirements ==
    /\ \E latest \in get_latest_job_requirements(db) :
           DbCalled("get_latest_job_requirements", PyNone, Return(latest, 0))
    /\ UNCHANGED db

\* A second passes.
Tick ==
    /\ clock < MaxClock
    /\ clock' = clock + 1
    /\ UNCHANGED <<session_state, form_data, pc, locals, llm_log, shown,
                   call, ret, db, vector_store>>

DbNext ==
    \/ SaveUserInput
    \/ SaveJobRequirements
    \/ GetLatestUserInput
    \/ GetLatestJobRequirements
    \/ Tick

DbSpec == DbInit /\ [][DbNext]_vars

(***************************************************************************)
(* Properties.                                                             *)
(***************************************************************************)
Rank(stage) ==
    CASE stage = "company_analysis" -> 1
      [] stage = "requirements" -> 2
      [] stage = "refinement" -> 3
      [] stage = "structure" -> 4
      [] stage = "summary" -> 5
      [] stage = "suggestions" -> 6

StagesLogged == [i \in 1..Len(llm_log) |-> llm_log[i].stage]

\* The text from the first { to the last } of a text, both included, or the
\* empty text if there is no such part.
Positions(text, ch) == { i \in 1..Len(text) : text[i] = ch }
Lowest(S) == CHOOSE i \in S : \A j \in S : i <= j
Highest(S) == CHOOSE i \in S : \A j \in S : j <= i
ObjectSpan(text) ==
    IF Positions(text, LBrace) = {} \/ Positions(text, RBrace) = {}
    THEN <<>>
    ELSE IF Highest(Positions(text, RBrace)) < Lowest(Positions(text, LBrace))
    THEN <<>>
    ELSE SubSeq(text, Lowest(Positions(text, LBrace)),
                Highest(Positions(text, RBrace)))

\* That part is a well-formed JSON object; ParsedObject is its value.
HasObject(text) == ObjectSpan(text) # <<>> /\ json_loads(ObjectSpan(text)).ok
ParsedObject(text) == json_loads(ObjectSpan(text)).val

IsBlank(text) == \A i \in 1..Len(text) : text[i] = Blank

FatalStages == {"company_analysis", "requirements", "structure"}

AssembledExperiences == results["resume_data"].dict["work_experiences"]

\* C1: in every run of generate_resume the LLM is invoked by the stages in
\* the order company analysis, requirements extraction, refinement,
\* structure plan; the refinement invokes it only for a profile that has
\* work experiences; every stage starts with the results of the stages
\* before it stored and with nothing of a later stage; and the record is
\* assembled only after the structure plan has returned.
StagesInDependencyOrder ==
    /\ \A i, j \in 1..Len(llm_log) :
           i < j => Rank(llm_log[i].stage) < Rank(llm_log[j].stage)
    /\ Invoked("requirements") => Invoked("company_analysis")
    /\ Invoked("refinement") => Invoked("requirements")
    /\ Invoked("structure") => Invoked("requirements")
    /\ pc = "company_analysis" => DOMAIN results = {} /\ llm_log = <<>>
    /\ pc = "requirements" =>
           /\ DOMAIN results = {"company_analysis"}
           /\ StagesLogged = <<"company_analysis">>
    /\ pc = "refinement" =>
           /\ DOMAIN results = {"company_analysis", "requirements_analysis"}
           /\ StagesLogged = <<"company_analysis", "requirements">>
    /\ pc = "structure" =>
           /\ DOMAIN results = {"company_analysis", "requirements_analysis",
                                "refined_work_experiences"}
           /\ StagesLogged =
                  IF user_input.work_experiences # <<>>
                  THEN <<"company_analysis", "requirements", "refinement">>
                  ELSE <<"company_analysis", "requirements">>
    /\ pc = "assembly" =>
           /\ DOMAIN results = {"company_analysis", "requirements_analysis",
                                "refined_work_experiences", "structure_plan"}
           /\ llm_log[Len(llm_log)] = [stage |-> "structure", raised |-> FALSE]
    /\ "resume_data" \in DOMAIN results =>
           /\ "structure_plan" \in DOMAIN results
           /\ Invoked("structure")
           /\ \A i \in 1..Len(llm_log) :
                  llm_log[i].stage \in FatalStages => ~llm_log[i].raised

\* A run for a profile with work experiences has invoked all four stages
\* and assembled the record.
AllStagesInvoked ==
    /\ pc = "summary"
    /\ "resume_data" \in DOMAIN results
    /\ StagesLogged = <<"company_analysis", "requirements", "refinement",
                        "structure">>

\* C2: when the LLM call of the company analysis, the requirements
\* extraction or the structure plan raises, no later stage invokes the LLM
\* and the run is over without a result: a direct caller has the exception,
\* and under main() the session's results are unset and resume_generated is
\* False.
FatalStageAbortsRun ==
    \A i \in 1..Len(llm_log) :
        (llm_log[i].raised /\ llm_log[i].stage \in FatalStages) =>
            /\ i = Len(llm_log)
            /\ "resume_data" \notin DOMAIN results
            /\ IF call = NoCall
               THEN /\ pc = "idle"
                    /\ session_state.results = PyNone
                    /\ ~session_state.resume_generated
               ELSE /\ pc = "returned"
                    /\ ret = Raise("LLMError", 0)

\* The structure plan's LLM call raised under main().
StructurePlanRaised ==
    /\ shown = Shown("generation_error", "structure")
    /\ Len(llm_log) = 4
    /\ llm_log[4] = [stage |-> "structure", raised |-> TRUE]
    /\ session_state.results = PyNone

\* The LLM call of step 3 raised, or its response holds no JSON object
\* that parses.
RefinementFailed ==
    /\ "raises" \in DOMAIN refinement_output.llm
    /\ \/ refinement_output.llm.raises
       \/ ~HasObject(refinement_output.llm.content)

\* C3: after a failure of the refinement (its LLM call raises, or its
\* response cannot be parsed) the run goes on: the structure plan is
\* invoked next, no refined list is kept, the assembled record holds the
\* original experiences, and a direct caller is returned that record unless
\* the structure plan raised.
RefinementFailureNotFatal ==
    RefinementFailed =>
        /\ pc \in {"structure", "assembly", "summary", "suggestions", "store",
                   "returned"}
        /\ pc # "structure" => Invoked("structure")
        /\ refined_experiences = PyList(<<>>)
        /\ "resume_data" \in DOMAIN results =>
               AssembledExperiences = OriginalExperienceDicts(user_input)
        /\ pc = "returned" =>
               IF llm_log[Len(llm_log)].raised
               THEN ret = Raise("LLMError", 0)
               ELSE /\ ret.exc = "none"
                    /\ ret.value.dict["resume_data"].dict["work_experiences"]
                           = OriginalExperienceDicts(user_input)

\* generate_resume returned a record although the refinement's LLM call
\* raised.
ReturnedAfterRefinementRaised ==
    /\ pc = "returned"
    /\ ret.exc = "none"
    /\ "raises" \in DOMAIN refinement_output.llm
    /\ refinement_output.llm.raises
    /\ Len(user_input.work_experiences) = 2

\* C4: for a profile with work experiences, the assembled record holds the
\* list the refinement agent returned when that list is not empty, and the
\* original experiences, in their order, when the agent returned an empty
\* list or raised.
RefinementSubstitutionRule ==
    ("resume_data" \in DOMAIN results /\ user_input.work_experiences # <<>>) =>
        IF refinement_output.output.exc = "none"
           /\ Truthy(refinement_output.output.value)
        THEN AssembledExperiences = refinement_output.output.value
        ELSE AssembledExperiences = OriginalExperienceDicts(user_input)

\* The agent returned a list of one experience whose description is null,
\* and the record holds the original experiences.
RefinedListDiscarded ==
    /\ "resume_data" \in DOMAIN results
    /\ refinement_output.output.exc = "none"
    /\ refinement_output.output.value =
           PyList(<<PyDict([company_name |-> PyStr("Acme"),
                            position |-> PyStr("Eng"),
                            period |-> PyStr("2020"),
                            description |-> PyNone])>>)
    /\ AssembledExperiences = OriginalExperienceDicts(user_input)

\* C5: step 3 for a profile without work experiences, and the refinement
\* agent for the empty text or the text that stands for no entry, return
\* the empty list and invoke the LLM zero times.
RefinementShortCircuit ==
    /\ (call.agent = "refinement" /\ ret # NoOutput
        /\ call.work_experiences \in {<<>>, NoEntryText})
           => ret = Return(PyList(<<>>), 0)
    /\ (call.agent = "refinement_step" /\ ret # NoOutput
        /\ call.user_input.work_experiences = <<>>)
           => /\ ret.refined = PyList(<<>>)
              /\ ret.llm_calls = 0
              /\ ret.output = NoOutput

\* The agent was called with the text that stands for no entry while the
\* LLM had a list to give.
SentinelShortCircuited ==
    /\ call.agent = "refinement"
    /\ call.work_experiences = NoEntryText
    /\ call.llm = LLMReturns(RefinedOne)
    /\ ret = Return(PyList(<<>>), 0)

SessionRecord(state) == state.results.dict["resume_data"]

\* C6: an upgrade (a supplement integration under main()) leaves in the
\* session either the record it held before or the whole object parsed
\* from the response: never a mixture of the two.
RecordNeverPartiallyUpdated ==
    [][(/\ session_state.resume_generated
        /\ session_state.processing
        /\ IsText(session_state.do_upgrade_input)
        /\ session_state'.do_upgrade_input = PyNone)
       => \/ SessionRecord(session_state') = SessionRecord(session_state)
          \/ \E r \in SupplementResponses :
                 /\ HasObject(r)
                 /\ SessionRecord(session_state') = ParsedObject(r)]_vars

\* An upgrade replaced the record of the session by the parsed object,
\* which has none of the other fields of the generated record.
RecordReplacedByUpgrade ==
    /\ shown = Shown("success", "upgrade")
    /\ session_state.resume_generated
    /\ SessionRecord(session_state) =
           PyDict([name |-> PyStr("Taro"), summary |-> PyStr("new")])

\* C7: for a supplement that is not blank, when the response of the LLM
\* holds no JSON object that parses, SupplementIntegrationAgent.run returns
\* the record it was given and raises nothing.
SupplementFailureKeepsRecord ==
    (/\ call.agent = "supplement"
     /\ ret # NoOutput
     /\ ~IsBlank(call.supplement_info)
     /\ ret.llm_calls = 1
     /\ ~call.llm.raises
     /\ ~HasObject(call.llm.content))
        => ret = Return(call.resume_data, 1)

\* The response had braces around something that is no JSON, and the
\* generated record came back.
UnparsedResponseKeptRecord ==
    /\ call.agent = "supplement"
    /\ call.supplement_info = <<"more">>
    /\ call.llm = LLMReturns(<<"text", Blank, LBrace, "oops", RBrace>>)
    /\ "email" \in DOMAIN call.resume_data.dict
    /\ ret = Return(call.resume_data, 1)

\* C8: for a supplement that is empty or blank,
\* SupplementIntegrationAgent.run returns the record it was given and does
\* not invoke the LLM.
BlankSupplementKeepsRecord ==
    (call.agent = "supplement" /\ ret # NoOutput
     /\ IsBlank(call.supplement_info))
        => ret = Return(call.resume_data, 0)

\* The supplement was one blank, and the record came back without an LLM
\* call.
BlankSupplementReturned ==
    /\ call.agent = "supplement"
    /\ call.supplement_info = <<Blank>>
    /\ ~call.llm.raises
    /\ ret = Return(call.resume_data, 0)

\* C9: when the response of the LLM holds a JSON object that parses,
\* SupplementIntegrationAgent.run returns that object and nothing else: it
\* has exactly the fields of the parsed object.
SupplementSuccessReplacesRecord ==
    (/\ call.agent = "supplement"
     /\ ret # NoOutput
     /\ ~IsBlank(call.supplement_info)
     /\ ret.llm_calls = 1
     /\ ~call.llm.raises
     /\ HasObject(call.llm.content))
        => /\ ret = Return(ParsedObject(call.llm.content), 1)
           /\ IsDict(ret.value)
           /\ DOMAIN ret.value.dict = DOMAIN ParsedObject(call.llm.content).dict

\* The generated record was replaced by an object without its e-mail field.
ParsedObjectReturned ==
    /\ call.agent = "supplement"
    /\ "email" \in DOMAIN call.resume_data.dict
    /\ ret.exc = "none"
    /\ ret.llm_calls = 1
    /\ DOMAIN ret.value.dict = {"name", "summary"}

\* C10: when the text from the first { to the last } of a response is a
\* well-formed JSON object, whatever surrounds it, each of the three agents
\* works on the value of that text: the supplement agent returns it, the
\* refinement agent returns what it holds under work_experiences, and the
\* suggestion agent what it holds under suggestions and prompt_text (an
\* agent raises only where it measures a value that has no length or
\* indexes a dict).
ExtractionEqualsDirectParse ==
    (/\ call.agent \in {"refinement", "supplement", "suggestion"}
     /\ ret # NoOutput
     /\ ret.llm_calls = 1
     /\ ~call.llm.raises
     /\ HasObject(call.llm.content))
        => LET parsed == ParsedObject(call.llm.content)
               refined == DictGet(parsed, "work_experiences", PyList(<<>>))
               suggestions == DictGet(parsed, "suggestions", PyList(<<>>))
           IN  CASE call.agent = "supplement" -> ret = Return(parsed, 1)
                 [] call.agent = "refinement" ->
                        IF HasLen(refined) /\ ~(IsDict(refined) /\ Truthy(refined))
                        THEN ret = Return(refined, 1)
                        ELSE ret.exc \in {"TypeError", "KeyError"}
                 [] call.agent = "suggestion" ->
                        IF HasLen(suggestions)
                        THEN ret = Return(
                                 PyDict([suggestions |-> suggestions,
                                         prompt_text |->
                                             DictGet(parsed, "prompt_text",
                                                     DefaultPromptText)]), 1)
                        ELSE ret.exc = "TypeError"

\* The refinement agent returned the two experiences of an object that has
\* prose with a closing brace before it and prose after it.
ExtractedFromProse ==
    /\ call.agent = "refinement"
    /\ call.llm = LLMReturns(<<RBrace, "text">> \o RefinedTwo \o <<Blank, "text">>)
    /\ ret.exc = "none"
    /\ Len(ret.value.list) = 2

\* C11: whatever the response of the LLM, the refinement, suggestion and
\* supplement agents let no exception escape the parsing of it: without a
\* JSON object that parses they return their default (the empty list, the
\* default suggestions, the record they were given), and with one they
\* return a value.
ExtractionNeverRaises ==
    (/\ call.agent \in {"refinement", "supplement", "suggestion"}
     /\ ret # NoOutput
     /\ ret.llm_calls = 1
     /\ ~call.llm.raises)
        => /\ ret.exc = "none"
           /\ ~HasObject(call.llm.content) =>
                  ret.value = CASE call.agent = "refinement" -> PyList(<<>>)
                                [] call.agent = "suggestion" -> SuggestionDefaults
                                [] call.agent = "supplement" -> call.resume_data

\* The response was an object with a number under work_experiences, and
\* the TypeError of len() left the refinement agent.
NumberUnderExpectedKeyRaised ==
    /\ call.agent = "refinement"
    /\ call.llm = LLMReturns(JObj(<<JPair("work_experiences", <<"5">>)>>))
    /\ ret = Raise("TypeError", 1)

\* What an agent does with the value v it found under its expected key: it
\* returns result, unless v is a value it cannot measure or index.
KeyValueReturned(v, result) ==
    IF HasLen(v) /\ ~(call.agent = "refinement" /\ IsDict(v) /\ Truthy(v))
    THEN ret = Return(result, 1)
    ELSE ret.exc \in {"TypeError", "KeyError"}

\* The refinement or the suggestion agent was given a response with a JSON
\* object that parses.
ObjectGiven ==
    /\ call.agent \in {"refinement", "suggestion"}
    /\ ret # NoOutput
    /\ ret.llm_calls = 1
    /\ ~call.llm.raises
    /\ HasObject(call.llm.content)

SuggestionDefaultOnFailure ==
    (/\ call.agent = "suggestion"
     /\ ret # NoOutput
     /\ ret.llm_calls = 1
     /\ ~call.llm.raises
     /\ ~HasObject(call.llm.content))
        => ret = Return(PyDict([suggestions |-> PyList(<<>>),
                                prompt_text |-> PyStr("default-prompt-text")]), 1)

\* The response had braces around something that is no JSON, and the
\* defaults came back.
SuggestionDefaultsReturned ==
    /\ call.agent = "suggestion"
    /\ call.llm = LLMReturns(<<"text", LBrace, "oops", RBrace>>)
    /\ ret.exc = "none"
    /\ ret.value.dict["suggestions"] = PyList(<<>>)
    /\ ret.value.dict["prompt_text"] = DefaultPromptText

RecordFields ==
    {"name", "residence", "job_title", "role", "years_of_experience",
     "programming_languages", "frameworks", "testing_tools", "design_tools",
     "work_experiences", "personal_projects", "portfolio_url"}

HasEveryField(record) ==
    /\ IsDict(record)
    /\ RecordFields \subseteq DOMAIN record.dict
    /\ \A k \in RecordFields : ~IsNone(record.dict[k])

NoStageRetries ==
    /\ \A i, j \in 1..Len(llm_log) :
           llm_log[i].stage = llm_log[j].stage => i = j
    /\ refinement_output.output.llm_calls <= 1

\* The refinement's response could not be parsed, its LLM call is the only
\* one of the stage, and the structure plan followed.
UnparsedRefinementInvokedOnce ==
    /\ refinement_output.llm = LLMReturns(<<"sorry">>)
    /\ StagesLogged = <<"company_analysis", "requirements", "refinement",
                        "structure">>
    /\ pc = "assembly"

\* What main() holds in results after line 215 when the stages run in the
\* order of the code, for the responses the LLM gave in this run.
SequentialResults ==
    LET analyses == [company_analysis |-> TextOf(<<"A1">>),
                     requirements_analysis |-> TextOf(<<"R1">>)]
        refined == RefinementStep(user_input, job_requirements, analyses,
                                  refinement_output.llm).refined
        record == _extract_structured_data(user_input, job_requirements, refined)
    IN  [company_analysis |-> analyses.company_analysis,
         requirements_analysis |-> analyses.requirements_analysis,
         refined_work_experiences |-> refined,
         structure_plan |-> TextOf(<<"P1">>),
         resume_data |-> PyDict(SetItem(record.dict, "summary", TextOf(<<"S1">>))),
         generated_summary |-> TextOf(<<"S1">>)]

\* The step is stage 3, or the summary run before the record is assembled.
IsRefinementStep == pc = "refinement" /\ pc' = "structure"
IsEarlySummaryStep == pc' = pc /\ ~Invoked("summary") /\ results' # results

\* What a step leaves alone in results: every field but the one it adds.
AddsOnly(key) ==
    /\ DOMAIN results' = DOMAIN results \cup {key}
    /\ \A k \in DOMAIN results \ {key} : results'[k] = results[k]

\* C15: stage 3 and stage 6 are independent.  Stage 3 writes only
\* refined_work_experiences and the summary only generated_summary; and
\* whichever runs first, main() ends with the results the order of the code
\* gives for the same responses, and fails only when an LLM call raised.
RefinementAndSummaryIndependent ==
    /\ [](pc = "suggestions" => results = SequentialResults)
    /\ []((pc = "idle" /\ shown.kind = "generation_error") =>
              \E i \in 1..Len(llm_log) : llm_log[i].raised)
    /\ [][/\ IsRefinementStep =>
                 /\ AddsOnly("refined_work_experiences")
                 /\ "generated_summary" \in DOMAIN results =>
                        results'["generated_summary"] = results["generated_summary"]
          /\ IsEarlySummaryStep =>
                 /\ AddsOnly("generated_summary")
                 /\ refined_experiences' = refined_experiences]_vars

\* The summary ran before stage 3, and the run ended with the refined list
\* and the summary in the record.
SummaryRanBeforeRefinement ==
    /\ pc = "suggestions"
    /\ StagesLogged = <<"company_analysis", "requirements", "summary",
                        "refinement", "structure">>
    /\ Truthy(refined_experiences)
    /\ results["resume_data"].dict["work_experiences"] = refined_experiences
    /\ results["resume_data"].dict["summary"] = TextOf(<<"S1">>)

\* C18: a failure of the save to the form cache (app.py lines 177-190) or
\* of the write to the semantic store (lines 236-249) never aborts the
\* request and never changes the result.  A conversion error is shown only
\* for form data the models reject; whatever the save did, the run enters
\* the pipeline with the objects converted from the form; and whatever the
\* write to the store did, the step that stores the results puts the
\* results of the pipeline in the session, sets resume_generated and ends
\* the run without a message.
SideEffectFailuresHarmless ==
    /\ [](shown.kind = "conversion_error" =>
              ConversionRaises(form_data["user_input"],
                               form_data["job_requirements"]))
    /\ [][/\ (pc = "idle" /\ pc' = "company_analysis" /\ call' = NoCall =>
                 /\ user_input' = UserInput(form_data["user_input"])
                 /\ job_requirements' = JobRequirements(form_data["job_requirements"])
                 /\ session_state' =
                       [session_state EXCEPT
                           !.user_input_obj = UserInput(form_data["user_input"]),
                           !.job_requirements_obj =
                               JobRequirements(form_data["job_requirements"])]
                 /\ results' = EmptyDict
                 /\ shown' = Nothing)
          /\ (pc = "store" =>
                 /\ session_state' =
                       [session_state EXCEPT !.results = PyDict(results),
                                             !.resume_generated = TRUE,
                                             !.processing = FALSE]
                 /\ shown' = Nothing
                 /\ pc' = "idle")]_vars

\* The results are stored and the session says generated although no save
\* to the cache and no write to the store has ever succeeded.
ResultStoredThoughSideEffectsFailed ==
    /\ session_state.resume_generated
    /\ ~IsNone(session_state.results)
    /\ db = EmptyDb
    /\ vector_store = EmptyStore

\* The table a save call writes.
TableOf(agent) ==
    IF agent = "save_user_input" THEN "user_input" ELSE "job_requirements"

IsSave(c) == c.agent \in {"save_user_input", "save_job_requirements"}

\* The rows of a table whose hash is that of the payload.
RowsWithHashOf(table, data) ==
    { i \in 1..Len(table) : table[i].hash = _calculate_hash(data) }

\* C19: a save (of either table) that returns, of a payload whose
\* sorted-key serialization is that of a row already in the table, inserts
\* no row and changes none, and returns the id of that row.
SaveDeduplicates ==
    [][(/\ IsSave(call')
        /\ ret'.exc = "none"
        /\ RowsWithHashOf(db[TableOf(call'.agent)], call'.data) # {}) =>
           /\ db' = db
           /\ \E i \in RowsWithHashOf(db[TableOf(call'.agent)], call'.data) :
                  ret'.value = PyInt(db[TableOf(call'.agent)][i].id)]_vars

\* The last call saved a payload with the keys in another order than the
\* one saved first: it returned the id of the first row, and the table
\* holds more rows than that id, so the call inserted nothing.
ResavedPayloadReturnedFirstId ==
    /\ call.agent = "save_user_input"
    /\ "order" \in DOMAIN call.data
    /\ call.data.order = <<"frameworks", "name">>
    /\ ret = Return(PyInt(1), 0)
    /\ Len(db.user_input) >= 2
    /\ db.user_input[1].hash = _calculate_hash(call.data)

\* What the cache returns of a saved user payload: the columns of its row.
CachedUser(v) == [k \in DOMAIN v.dict \ {"id"} |-> v.dict[k]]

\* C20: after a save call that returned an id, a read of the latest entry
\* of that table returns the payload of that call, whatever was saved
\* before.
LatestIsLastSaved ==
    /\ (call.agent = "save_user_input" /\ ret.exc = "none"
            /\ ~IsNone(ret.value)) =>
           \A latest \in get_latest_user_input(db) :
               /\ ~IsNone(latest)
               /\ CachedUser(latest) =
                      CachedUser(UserRowDict([id |-> 0, columns |-> UserColumns(call.data)]))
    /\ (call.agent = "save_job_requirements" /\ ret.exc = "none"
            /\ ~IsNone(ret.value)) =>
           \A latest \in get_latest_job_requirements(db) :
               /\ ~IsNone(latest)
               /\ latest = JobRowDict([id |-> 0,
                                        columns |-> JobColumns(call.data,
                                                      DictGet(call.data, "company_info", PyDict(EmptyDict)))])

\* A payload was saved, another one a second or more later, and the first
\* one again after that: the last call returned the id of the first row,
\* and the cache returns the second payload as the latest.
ResaveLeftOlderEntryLatest ==
    /\ call.agent = "save_user_input"
    /\ ret = Return(PyInt(1), 0)
    /\ Len(db.user_input) = 2
    /\ db.user_input[1].updated_at < db.user_input[2].updated_at
    /\ db.user_input[2].updated_at < clock
    /\ get_latest_user_input(db) = {UserRowDict(db.user_input[2])}

\* C21: the profile passed into the pipeline is never mutated.  No step of
\* a run changes the UserInput the run holds or the one the session keeps;
\* once the summary is attached to the record, both still equal the
\* conversion of the submitted form, whether or not the record uses a
\* refined list.
ProfileNeverMutated ==
    /\ []((pc \in {"suggestions", "store"}) =>
              /\ user_input = UserInput(form_data["user_input"])
              /\ session_state.user_input_obj = UserInput(form_data["user_input"]))
    /\ [][/\ (pc \notin {"idle", "returned"} /\ pc' \notin {"idle", "returned"} =>
                 user_input' = user_input)
          /\ (pc # "idle" =>
                 session_state'.user_input_obj = session_state.user_input_obj)]_vars

\* The summary is attached to a record whose experiences are a refined
\* list that differs from the entries of the profile.
RefinedRecordWithSummary ==
    /\ pc = "store"
    /\ "summary" \in DOMAIN results["resume_data"].dict
    /\ Truthy(results["refined_work_experiences"])
    /\ results["resume_data"].dict["work_experiences"] = results["refined_work_experiences"]
    /\ results["resume_data"].dict["work_experiences"] # OriginalExperienceDicts(user_input)

\* The record of this run is assembled from a refined list.
RecordUsesRefinedList ==
    /\ pc \notin {"idle", "returned"}
    /\ "resume_data" \in DOMAIN results
    /\ Truthy(refined_experiences)

\* The entry has the company name, the position and the period of the
\* original entry.
SameIdentity(entry, original) ==
    /\ IsDict(entry)
    /\ \A key \in {"company_name", "position", "period"} :
           DictGet(entry, key, PyNone) = original.dict[key]

\* C22: when the assembled record uses a refined list, the list has as
\* many entries as the profile has experiences, and each entry has the
\* company name, position and period of the original entry at its place.
RefinedListKeepsIdentity ==
    RecordUsesRefinedList =>
        LET refined == results["resume_data"].dict["work_experiences"]
            original == OriginalExperienceDicts(user_input).list
        IN  /\ IsList(refined)
            /\ Len(refined.list) = Len(original)
            /\ \A i \in 1..Len(original) :
                   SameIdentity(refined.list[i], original[i])

\* The record holds one refined entry for a profile of two experiences.
RefinedListShorterThanOriginal ==
    /\ RecordUsesRefinedList
    /\ Len(results["resume_data"].dict["work_experiences"].list) = 1
    /\ Len(user_input.work_experiences) = 2

\* The texts stages 1 and 2 return in a run.
CompanyAnalysisText == TextOf(<<"A1">>)
RequirementsText == TextOf(<<"R1">>)

\* C23: a run starts with empty results; the step of stage 1 stores the
\* text stage 1 returned and the step of stage 2 the text stage 2 returned,
\* no later step of the run changes either, and the company_analysis
\* input of stages 2, 3 and 4 is the text of stage 1 and the requirements
\* input of stages 3 and 4 the text of stage 2.
DataThreaded ==
    /\ [](pc = "company_analysis" => results = EmptyDict)
    /\ [](pc = "requirements" =>
              RequirementsInput(job_requirements, results).company_analysis
                  = CompanyAnalysisText)
    /\ [](pc = "refinement" =>
              LET input == RefinementInput(user_input, job_requirements, results)
              IN  /\ input.company_analysis = CompanyAnalysisText
                  /\ input.requirements_analysis = RequirementsText)
    /\ [](pc = "structure" =>
              /\ StructureInput(results).company_analysis = CompanyAnalysisText
              /\ StructureInput(results).job_requirements = RequirementsText)
    /\ [][/\ (pc = "company_analysis" /\ pc' = "requirements" =>
                 results' = [company_analysis |-> CompanyAnalysisText])
          /\ (pc = "requirements" /\ pc' = "refinement" =>
                 results' = [company_analysis |-> results["company_analysis"],
                             requirements_analysis |-> RequirementsText])
          /\ (pc \in {"refinement", "structure"}
                  /\ pc' \in {"structure", "assembly"} =>
                 /\ results'["company_analysis"] = results["company_analysis"]
                 /\ results'["requirements_analysis"] = results["requirements_analysis"])]_vars

\* Stage 4 is about to run in a run whose stage 3 invoked the LLM.
StructureStageAfterRefinement ==
    /\ pc = "structure"
    /\ Invoked("refinement")
    /\ StructureInput(results).job_requirements = RequirementsText
    /\ StructureInput(results).job_requirements # StructureInput(results).company_analysis

\* Every key of the dict before is a key of the dict after with the same
\* value; the record under resume_data may have gained keys of its own.
Accumulated(before, after) ==
    /\ DOMAIN before \subseteq DOMAIN after
    /\ \A key \in DOMAIN before \ {"resume_data"} : after[key] = before[key]
    /\ "resume_data" \in DOMAIN before =>
           /\ DOMAIN before["resume_data"].dict \subseteq DOMAIN after["resume_data"].dict
           /\ \A key \in DOMAIN before["resume_data"].dict :
                  after["resume_data"].dict[key] = before["resume_data"].dict[key]

FirstFiveFields ==
    {"company_analysis", "requirements_analysis", "refined_work_experiences",
     "structure_plan", "resume_data"}

\* The field the stage at this position adds when it completes.
FieldOf(stage) ==
    CASE stage = "company_analysis" -> {"company_analysis"}
      [] stage = "requirements" -> {"requirements_analysis"}
      [] stage = "refinement" -> {"refined_work_experiences"}
      [] stage = "structure" -> {"structure_plan"}
      [] stage = "assembly" -> {"resume_data"}
      [] stage = "summary" -> {"generated_summary"}
      [] OTHER -> {}

\* C24: the result of a run only accumulates.  A step of a run that goes
\* on to the next stage adds the field of the completed stage and keeps
\* every field written before with its value (the summary is attached to
\* the record as a new key of the record); the result generate_resume
\* returns, to main() or to another caller, has the first five fields.
ResultOnlyAccumulates ==
    /\ [](pc = "summary" => FirstFiveFields \subseteq DOMAIN results)
    /\ [](pc = "returned" /\ ret.exc = "none" =>
              FirstFiveFields \subseteq DOMAIN ret.value.dict)
    /\ [][(pc \notin {"idle", "returned"} /\ pc' \notin {"idle", "returned"}) =>
              /\ Accumulated(results, results')
              /\ DOMAIN results' = DOMAIN results \cup FieldOf(pc)]_vars

\* Every field is written: the summary has been added to a result that
\* holds a refined list.
SixFieldsAccumulated ==
    /\ pc = "suggestions"
    /\ DOMAIN results = FirstFiveFields \cup {"generated_summary"}
    /\ Truthy(results["refined_work_experiences"])
    /\ "summary" \in DOMAIN results["resume_data"].dict

\* The agent takes the text between the braces of the response for JSON.
ParseAttempted(text) ==
    SpanFound(find(text, LBrace), rfind(text, RBrace) + 1)

\* The text has a { and a }, and its last } lies after its first {.
ClosesAfterOpening(text) ==
    /\ Positions(text, LBrace) # {}
    /\ Positions(text, RBrace) # {}
    /\ Highest(Positions(text, RBrace)) > Lowest(Positions(text, LBrace))

\* C25: the refinement and supplement agents attempt to parse a response
\* exactly when it has a { and its last } lies after its first {;
\* otherwise they return their default (the empty list, the record they
\* were given) without parsing.
ExtractionFailureCondition ==
    (/\ call.agent \in {"refinement", "supplement"}
     /\ ret # NoOutput
     /\ ret.llm_calls = 1
     /\ ~call.llm.raises)
        => /\ ParseAttempted(call.llm.content) <=> ClosesAfterOpening(call.llm.content)
           /\ ~ClosesAfterOpening(call.llm.content) =>
                  ret = IF call.agent = "refinement"
                        THEN Return(PyList(<<>>), 1)
                        ELSE Return(call.resume_data, 1)

\* The response has both braces, every } before the first {: the
\* refinement agent returned the empty list.
ClosingBraceBeforeOpening ==
    /\ call.agent = "refinement"
    /\ ret = Return(PyList(<<>>), 1)
    /\ ~call.llm.raises
    /\ Positions(call.llm.content, LBrace) # {}
    /\ Positions(call.llm.content, RBrace) # {}
    /\ ~ClosesAfterOpening(call.llm.content)

\* The response of a suggestion call holds an object that parses and lacks
\* suggestions or prompt_text.
ObjectLacksExpectedKey ==
    /\ call.agent = "suggestion"
    /\ ret # NoOutput
    /\ ret.llm_calls = 1
    /\ ~call.llm.raises
    /\ HasObject(call.llm.content)
    /\ {"suggestions", "prompt_text"} \ DOMAIN ParsedObject(call.llm.content).dict # {}

\* C26: when the response parses to an object that lacks suggestions or
\* prompt_text, the suggestion agent returns the empty list for a missing
\* suggestions, the default prompt text for a missing prompt_text, and
\* the value of the key that is present as parsed.
MissingKeyFilledFromDefaults ==
    ObjectLacksExpectedKey =>
        /\ ret.exc = "none"
        /\ ret.value.dict["suggestions"] =
               DictGet(ParsedObject(call.llm.content), "suggestions", PyList(<<>>))
        /\ ret.value.dict["prompt_text"] =
               DictGet(ParsedObject(call.llm.content), "prompt_text", DefaultPromptText)

\* The object holds a number under suggestions and no prompt_text: the
\* agent raised TypeError.
PresentKeyRaisedTypeError ==
    /\ ObjectLacksExpectedKey
    /\ "suggestions" \in DOMAIN ParsedObject(call.llm.content).dict
    /\ IsNum(ParsedObject(call.llm.content).dict["suggestions"])
    /\ ret = Raise("TypeError", 1)

\* The object holds a prompt text and no suggestions: the agent returned
\* the empty list with that prompt text.
MissingSuggestionsGaveEmptyList ==
    /\ ObjectLacksExpectedKey
    /\ ret = Return(PyDict([suggestions |-> PyList(<<>>),
                            prompt_text |-> PyStr("tell-more")]), 1)

\* The last run of the script ended a generation attempt with an error.
AttemptFailed ==
    /\ pc = "idle"
    /\ shown.kind \in {"validation_error", "conversion_error", "generation_error"}

ResetGivesIdleInput ==
    [][Reset =>
          /\ ~session_state'.resume_generated
          /\ session_state'.results = PyNone
          /\ ~session_state'.processing
          /\ session_state'.do_upgrade_input = PyNone
          /\ ~session_state'.do_regenerate_suggestions]_vars

\* The reset button was pressed while an upgrade was pending: the input
\* page is shown with processing True and the upgrade text kept.
ResetLeftUpgradePending ==
    /\ pc = "idle"
    /\ ~session_state.resume_generated
    /\ session_state.results = PyNone
    /\ session_state.user_input_obj = PyNone
    /\ session_state.processing
    /\ IsText(session_state.do_upgrade_input)
    /\ shown = Nothing

\* The result page offers the PDF of an upgrade for download.
UpgradedPdfOffered ==
    /\ pc = "idle"
    /\ session_state.resume_generated
    /\ session_state.updated_pdf_bytes # PyNone

CompleteSubmission ==
    /\ form_data["user_input"] \in RenderedUserForms
    /\ Truthy(form_data["user_input"].dict["name"])
    /\ Truthy(form_data["user_input"].dict["work_experiences"])
    /\ Truthy(form_data["job_requirements"].dict["job_title"])
    /\ Truthy(form_data["job_requirements"].dict["company_info"].dict["name"])
    /\ Truthy(form_data["job_requirements"].dict["job_description"])

\* C30: a complete submission of the rendered form passes both validations
\* and starts generate_resume, and generate_resume is never started from
\* the form for a submission that fails a validation.
PipelineReachableFromForm ==
    /\ [][StartGeneration /\ CompleteSubmission =>
              /\ validate_user_input(form_data["user_input"]).valid
              /\ validate_job_requirements(form_data["job_requirements"]).valid
              /\ pc' = "company_analysis"]_vars
    /\ [][StartGeneration /\ pc' = "company_analysis" =>
              /\ validate_user_input(form_data["user_input"]).valid
              /\ validate_job_requirements(form_data["job_requirements"]).valid]_vars

\* A complete submission of the rendered form was rejected by
\* validate_user_input: no pipeline was started.
CompleteSubmissionRejected ==
    /\ CompleteSubmission
    /\ pc = "idle"
    /\ shown = Shown("validation_error", "user")
    /\ ~session_state.processing
    /\ llm_log = <<>>

====
